---- MODULE Spec2Model ----
(***************************************************************************)
(* Model of the photo edit session of app.py: the three parallel buffer    *)
(* lists kept in the Streamlit session state, the script runs that read    *)
(* and write them (one action per button of the "Upload & Edit" tab), and  *)
(* the pure geometry helpers crop_image and resize_image.                  *)
(*                                                                         *)
(* An image is a record [src, mode, w, h, ops]: the uploaded file it was   *)
(* decoded from, its colour mode, its size in pixels, and the sequence of  *)
(* PIL operations its pixels have gone through.  Sizes are computed as     *)
(* the code computes them; pixel content is the term src + ops.            *)
(***************************************************************************)
EXTENDS Integers, Sequences, FiniteSets, TLC

VARIABLES
    original_images,   \* st.session_state.original_images
    edited_images,     \* st.session_state.edited_images
    working_images,    \* st.session_state.working_images
    uploaded_files,    \* value of the main st.file_uploader widget
    shown,             \* last image written to preview_placeholder in the run
    run,               \* the script run that produced this state
    calc               \* call record of a pure helper (SpecCrop, SpecResize)

vars == <<original_images, edited_images, working_images, uploaded_files,
          shown, run, calc>>

sessionVars == <<original_images, edited_images, working_images,
                 uploaded_files, shown, run>>

----------------------------------------------------------------------------
(* Bounds *)

MaxOps == 2         \* PIL operations committed to the buffers of a session
MaxDim == 10        \* width and height handed to the pure helpers
MaxRatio == 9       \* numerator and denominator of a free crop ratio

----------------------------------------------------------------------------
(* Uploaded files and decoded images *)

Files == {1, 2}

FileSize(f) == IF f = 1 THEN <<4, 2>> ELSE <<3, 1>>

FileMode(f) == IF f = 2 THEN "RGBA" ELSE "RGB"

\* What PIL makes of an uploaded file.  Image.open reads only the header:
\* it raises on a file that is no image ("undecodable"), and it accepts a
\* file whose pixel data is cut short ("truncated"), which raises later,
\* when the pixels are first loaded.
FileKind(f) ==
    IF f \in Files THEN "image"
    ELSE IF f = 3 THEN "undecodable" ELSE "truncated"

\* the value an operation yields when PIL or Python raises inside it
Raised == [src |-> -1, mode |-> "none", w |-> 0, h |-> 0, ops |-> <<>>]

\* the preview placeholder of a run that displays nothing
NoImage == [src |-> 0, mode |-> "none", w |-> 0, h |-> 0, ops |-> <<>>]

ImageOpen(f) ==
    [src |-> f, mode |-> FileMode(f), w |-> FileSize(f)[1],
     h |-> FileSize(f)[2], ops |-> <<>>]

convert_to_rgb(image) ==
    IF image.mode = "RGBA" THEN [image EXCEPT !.mode = "RGB"]
    ELSE IF image.mode \notin {"RGB", "L"} THEN [image EXCEPT !.mode = "RGB"]
    ELSE image

ZeroArea(image) == image.w = 0 \/ image.h = 0

\* one PIL call on the pixels: appends to the content term
PilOp(image, name, arg) == [image EXCEPT !.ops = Append(@, <<name, arg>>)]

----------------------------------------------------------------------------
(* Basic adjustments.  Factors are in tenths: 10 is the neutral 1.0.       *)

Neutral == 10

\* Enhance without the test against 1.0
Enhance_Always(image, name, factor, strict) ==
    IF image = Raised THEN Raised
    ELSE IF ZeroArea(image) /\ (name = "Contrast" \/ strict) THEN Raised
    ELSE PilOp(image, name, factor)

\* One ImageEnhance step.  ImageEnhance.Contrast takes the mean of the
\* image and divides by its pixel count, so it raises on an empty image;
\* whether the other enhancers accept an empty image depends on the
\* build, which is what strict stands for.
Enhance(image, name, factor, strict) ==
    IF image = Raised THEN Raised
    ELSE IF factor = Neutral THEN image
    ELSE IF ZeroArea(image) /\ (name = "Contrast" \/ strict) THEN Raised
    ELSE PilOp(image, name, factor)

\* lines 149-167, with the contrast block ahead of the brightness block
apply_basic_adjustments_ContrastFirst(image, brightness, contrast, saturation, sharpness, strict) ==
    Enhance(Enhance(Enhance(Enhance(image,
        "Contrast", contrast, strict),
        "Brightness", brightness, strict),
        "Color", saturation, strict),
        "Sharpness", sharpness, strict)

apply_basic_adjustments(image, brightness, contrast, saturation, sharpness, strict) ==
    Enhance(Enhance(Enhance(Enhance(image,
        "Brightness", brightness, strict),
        "Contrast", contrast, strict),
        "Color", saturation, strict),
        "Sharpness", sharpness, strict)

RECURSIVE apply_noise_reduction(_, _, _)
apply_noise_reduction(image, strength, strict) ==
    IF image = Raised THEN Raised
    ELSE IF strength = 0 THEN image
    ELSE IF ZeroArea(image) /\ strict THEN Raised
    ELSE apply_noise_reduction(PilOp(image, "MedianFilter", 3), strength - 1, strict)

----------------------------------------------------------------------------
(* Geometry *)

NoRatio == <<0, 0>>

CROP_PRESETS ==
    [name \in {"Instagram Square", "Instagram Portrait", "Facebook Cover",
               "Passport Photo", "LinkedIn Banner", "Original"} |->
        CASE name = "Instagram Square" -> <<1, 1>>
          [] name = "Instagram Portrait" -> <<4, 5>>
          [] name = "Facebook Cover" -> <<16, 9>>
          [] name = "Passport Photo" -> <<35, 45>>
          [] name = "LinkedIn Banner" -> <<4, 1>>
          [] OTHER -> NoRatio]

\* int(n * (a / b)) in IEEE double arithmetic.  For 1 <= a, b <= 12 and
\* n <= 40, and for the preset ratios, the double product truncates to the
\* exact floor of n*a/b.
TruncMul(n, a, b) == (n * a) \div b

\* The <<n, a, b>> with 1 <= a, b <= 12 and n <= 40 for which the double
\* quotient n / (a / b) lands just below the integer n*b/a, so that int()
\* truncates to one less than the exact quotient.
FloatDivShort ==
    {<<35, 7, 3>>, <<35, 7, 6>>, <<35, 7, 12>>, <<9, 9, 7>>, <<18, 9, 7>>,
     <<36, 9, 7>>, <<33, 11, 5>>, <<33, 11, 9>>, <<33, 11, 10>>}

\* int(n / (a / b)) in IEEE double arithmetic
TruncDiv(n, a, b) ==
    IF <<n, a, b>> \in FloatDivShort THEN ((n * b) \div a) - 1
    ELSE (n * b) \div a

\* CropBox with the comparison of the two ratios turned round
CropBox_Swapped(width, height, ratio) ==
    IF width * ratio[2] < ratio[1] * height
    THEN LET new_width == TruncMul(height, ratio[1], ratio[2])
             left == (width - new_width) \div 2
         IN <<left, 0, left + new_width, height>>
    ELSE LET new_height == TruncDiv(width, ratio[1], ratio[2])
             top == (height - new_height) \div 2
         IN <<0, top, width, top + new_height>>

\* the box (left, upper, right, lower) crop_image hands to Image.crop
CropBox(width, height, ratio) ==
    IF width * ratio[2] > ratio[1] * height
    THEN LET new_width == TruncMul(height, ratio[1], ratio[2])
             left == (width - new_width) \div 2
         IN <<left, 0, left + new_width, height>>
    ELSE LET new_height == TruncDiv(width, ratio[1], ratio[2])
             top == (height - new_height) \div 2
         IN <<0, top, width, top + new_height>>

crop_image(image, ratio) ==
    IF image = Raised THEN Raised
    ELSE IF ratio = NoRatio THEN image
    ELSE IF image.h = 0 THEN Raised          \* width / height divides by zero
    ELSE LET box == CropBox(image.w, image.h, ratio)
         IN [PilOp(image, "crop", box) EXCEPT !.w = box[3] - box[1],
                                              !.h = box[4] - box[2]]

\* Image.resize: an unchanged size is a copy, a size below 1x1 raises
PilResize(image, new_width, new_height) ==
    IF new_width = image.w /\ new_height = image.h THEN image
    ELSE IF new_width < 1 \/ new_height < 1 THEN Raised
    ELSE [PilOp(image, "resize", <<new_width, new_height>>)
             EXCEPT !.w = new_width, !.h = new_height]

\* resize_image rounding to the nearest pixel instead of truncating
resize_image_Rounded(image, scale_percent) ==
    IF image = Raised THEN Raised
    ELSE IF scale_percent = 100 THEN image
    ELSE PilResize(image, (image.w * scale_percent + 50) \div 100,
                          (image.h * scale_percent + 50) \div 100)

resize_image(image, scale_percent) ==
    IF image = Raised THEN Raised
    ELSE IF scale_percent = 100 THEN image
    ELSE PilResize(image, (image.w * scale_percent) \div 100,
                          (image.h * scale_percent) \div 100)

\* Image.rotate(-angle, expand=True): quarter turns transpose the image
rotate_image(image, angle, strict) ==
    IF image = Raised THEN Raised
    ELSE IF angle = 0 THEN image
    ELSE IF ZeroArea(image) /\ strict THEN Raised
    ELSE LET turned == PilOp(image, "rotate", (0 - angle) % 360)
         IN IF angle % 180 = 0 THEN turned
            ELSE [turned EXCEPT !.w = image.h, !.h = image.w]

upscale_image(image, factor) ==
    IF image = Raised THEN Raised
    ELSE PilResize(image, image.w * factor, image.h * factor)

----------------------------------------------------------------------------
(* Widget values a run can see *)

NeutralAdj == [brightness |-> Neutral, contrast |-> Neutral,
               saturation |-> Neutral, sharpness |-> Neutral]

\* slider settings of the four "Basic Adjustments" sliders (lines 725-730)
Adjustments ==
    {NeutralAdj, [NeutralAdj EXCEPT !.brightness = 12],
     [NeutralAdj EXCEPT !.contrast = 12]}

NeutralTransform == [crop |-> "Original", rotate |-> 0, resize |-> 100]

\* settings of the crop, rotate and resize widgets (lines 757-761)
Transforms ==
    {NeutralTransform,
     [NeutralTransform EXCEPT !.crop = "LinkedIn Banner"],
     [NeutralTransform EXCEPT !.crop = "LinkedIn Banner", !.rotate = 90],
     [NeutralTransform EXCEPT !.resize = 50]}

NeutralEnhancement == [noise |-> 0, upscale |-> 1]

\* settings of the noise and upscale widgets (lines 805-808)
Enhancements ==
    {NeutralEnhancement, [NeutralEnhancement EXCEPT !.noise = 2],
     [noise |-> 1, upscale |-> 2]}

Adjust(image, adj, strict) ==
    apply_basic_adjustments(image, adj.brightness, adj.contrast,
                            adj.saturation, adj.sharpness, strict)

\* lines 765-777 and 782-794: crop, then rotate, then resize
TransformChain(image, t, strict) ==
    LET cropped == IF t.crop # "Original"
                   THEN crop_image(image, CROP_PRESETS[t.crop]) ELSE image
        rotated == IF t.rotate # 0
                   THEN rotate_image(cropped, t.rotate, strict) ELSE cropped
    IN IF t.resize # 100 THEN resize_image(rotated, t.resize) ELSE rotated

\* lines 812-818 and 823-829: median passes, then upscale
EnhancementChain(image, e, strict) ==
    LET denoised == IF e.noise > 0
                    THEN apply_noise_reduction(image, e.noise, strict) ELSE image
    IN IF e.upscale > 1 THEN upscale_image(denoised, e.upscale) ELSE denoised

RECURSIVE SumOps(_)
SumOps(images) ==
    IF images = <<>> THEN 0 ELSE Len(Head(images).ops) + SumOps(Tail(images))

WithinOps(images) == SumOps(images) <= MaxOps

Indices == 1..Len(original_images)

RunRecord(op, idx, adj, t, e, raised) ==
    [op |-> op, idx |-> idx, adj |-> adj, transform |-> t,
     enhancement |-> e, raised |-> raised]

----------------------------------------------------------------------------
(* Script runs *)

Init ==
    /\ original_images = <<>>
    /\ edited_images = <<>>
    /\ working_images = <<>>
    /\ uploaded_files = <<>>
    /\ shown = NoImage
    /\ run = RunRecord("Start", 0, NeutralAdj, NeutralTransform,
                       NeutralEnhancement, FALSE)
    /\ calc = [fn |-> "none"]

\* lines 703-738: the working image is displayed, then the live preview of
\* the basic adjustments of the edited image replaces it
LivePreviewOf(edited, working, idx, adj, strict) ==
    LET temp_image == Adjust(edited[idx], adj, strict)
    IN IF temp_image = Raised THEN working[idx] ELSE temp_image

LiveRaises(edited, idx, adj, strict) == Adjust(edited[idx], adj, strict) = Raised

\* the batches a user uploads
Batches == {<<2>>, <<1, 2>>}

\* the Pillow builds whose answer a run depends on: only a run that meets an
\* empty image can tell a strict build from a lenient one
PilBuilds(cropping) ==
    IF cropping \/ \E i \in DOMAIN working_images : ZeroArea(working_images[i])
    THEN BOOLEAN ELSE {FALSE}

\* line 682 raises: Image.open rejects a file, or convert_to_rgb has to
\* load the pixels of a truncated RGBA file to split off its alpha channel
OpenRaises(files) ==
    \E i \in DOMAIN files :
       \/ FileKind(files[i]) = "undecodable"
       \/ FileKind(files[i]) = "truncated" /\ FileMode(files[i]) = "RGBA"

\* line 683 raises: img.copy() loads the pixels
CopyRaises(files) ==
    \E i \in DOMAIN files : FileKind(files[i]) = "truncated"

\* lines 667-703: the user changes the uploaded files; the run reloads the
\* three lists, one assignment after the other, when the number of files
\* differs from the number of originals
UploadRun(files, idx, adj, strict) ==
    /\ files # uploaded_files
    /\ uploaded_files' = files
    /\ LET reload == files # <<>> /\ Len(files) # Len(original_images)
           loaded == [i \in 1..Len(files) |-> convert_to_rgb(ImageOpen(files[i]))]
       IN IF reload /\ OpenRaises(files)
          THEN /\ UNCHANGED <<original_images, edited_images, working_images>>
               /\ shown' = NoImage
               /\ run' = RunRecord("Upload", 0, NeutralAdj, NeutralTransform,
                                   NeutralEnhancement, TRUE)
          ELSE IF reload /\ CopyRaises(files)
          THEN /\ original_images' = loaded
               /\ UNCHANGED <<edited_images, working_images>>
               /\ shown' = NoImage
               /\ run' = RunRecord("Upload", 0, NeutralAdj, NeutralTransform,
                                   NeutralEnhancement, TRUE)
          ELSE /\ original_images' = IF reload THEN loaded ELSE original_images
               /\ edited_images' = IF reload THEN loaded ELSE edited_images
               /\ working_images' = IF reload THEN loaded ELSE working_images
               /\ IF files = <<>>
                  THEN /\ shown' = NoImage
                       /\ run' = RunRecord("Upload", 0, NeutralAdj,
                                           NeutralTransform, NeutralEnhancement,
                                           FALSE)
                  ELSE /\ idx \in 1..Len(original_images')
                       /\ IF idx > Len(working_images')
                          THEN /\ shown' = NoImage
                               /\ run' = RunRecord("Upload", idx, NeutralAdj,
                                                   NeutralTransform,
                                                   NeutralEnhancement, TRUE)
                          ELSE /\ shown' = LivePreviewOf(edited_images',
                                              working_images', idx, adj, strict)
                               /\ run' = RunRecord("Upload", idx, adj,
                                             NeutralTransform, NeutralEnhancement,
                                             LiveRaises(edited_images', idx, adj,
                                                        strict))

\* the same run in a session whose other entries it leaves alone
Upload(files, idx, adj, strict) ==
    /\ UploadRun(files, idx, adj, strict)
    /\ UNCHANGED calc

\* a run of the script that reaches the editing tools: the upload branch is
\* entered (line 675) without a reload, and the selected index passes the
\* guard of line 699
Editing(idx) ==
    /\ uploaded_files # <<>>
    /\ Len(uploaded_files) = Len(original_images)
    /\ idx \in Indices
    /\ idx <= Len(working_images)

\* lines 698-701: the selected index has no working image; st.stop()
IndexGuard(idx) ==
    /\ uploaded_files # <<>>
    /\ Len(uploaded_files) = Len(original_images)
    /\ idx \in Indices
    /\ idx > Len(working_images)
    /\ shown' = NoImage
    /\ run' = RunRecord("IndexGuard", idx, NeutralAdj, NeutralTransform,
                        NeutralEnhancement, FALSE)
    /\ UNCHANGED <<original_images, edited_images, working_images,
                   uploaded_files, calc>>

\* a run with no button pressed: a slider was moved (lines 725-738)
LivePreview(idx, adj, strict) ==
    /\ Editing(idx)
    /\ shown' = LivePreviewOf(edited_images, working_images, idx, adj, strict)
    /\ run' = RunRecord("LivePreview", idx, adj, NeutralTransform,
                        NeutralEnhancement,
                        LiveRaises(edited_images, idx, adj, strict))
    /\ UNCHANGED <<original_images, edited_images, working_images,
                   uploaded_files, calc>>

\* Save Adjustments without the write to edited_images
SaveAdjustments_WorkingOnly(idx, adj, strict) ==
    /\ Editing(idx)
    /\ LET temp_image == Adjust(edited_images[idx], adj, strict)
       IN IF temp_image = Raised
          THEN /\ shown' = working_images[idx]
               /\ run' = RunRecord("SaveAdjustments", idx, adj, NeutralTransform,
                                   NeutralEnhancement, TRUE)
               /\ UNCHANGED working_images
          ELSE /\ working_images' = [working_images EXCEPT ![idx] = temp_image]
               /\ WithinOps(working_images')
               /\ shown' = LivePreviewOf(edited_images, working_images', idx,
                                         adj, strict)
               /\ run' = RunRecord("SaveAdjustments", idx, adj, NeutralTransform,
                                   NeutralEnhancement, FALSE)
    /\ UNCHANGED <<original_images, edited_images, uploaded_files, calc>>

\* lines 741-745: Save Adjustments, then the rerun's live preview
SaveAdjustments(idx, adj, strict) ==
    /\ Editing(idx)
    /\ LET temp_image == Adjust(edited_images[idx], adj, strict)
       IN IF temp_image = Raised
          THEN /\ shown' = working_images[idx]
               /\ run' = RunRecord("SaveAdjustments", idx, adj, NeutralTransform,
                                   NeutralEnhancement, TRUE)
               /\ UNCHANGED <<working_images, edited_images>>
          ELSE /\ working_images' = [working_images EXCEPT ![idx] = temp_image]
               /\ edited_images' = [edited_images EXCEPT ![idx] = temp_image]
               /\ WithinOps(working_images')
               /\ shown' = LivePreviewOf(edited_images', working_images', idx,
                                         adj, strict)
               /\ run' = RunRecord("SaveAdjustments", idx, adj, NeutralTransform,
                                   NeutralEnhancement, FALSE)
    /\ UNCHANGED <<original_images, uploaded_files, calc>>

\* Reset to Original that restores the working image from the edited image
ResetToOriginal_FromEdited(idx, adj, strict) ==
    /\ Editing(idx)
    /\ IF LiveRaises(edited_images, idx, adj, strict)
       THEN /\ shown' = working_images[idx]
            /\ run' = RunRecord("ResetToOriginal", idx, adj, NeutralTransform,
                                NeutralEnhancement, TRUE)
            /\ UNCHANGED <<working_images, edited_images>>
       ELSE /\ working_images' = [working_images EXCEPT ![idx] = edited_images[idx]]
            /\ edited_images' = [edited_images EXCEPT ![idx] = edited_images[idx]]
            /\ shown' = LivePreviewOf(edited_images', working_images', idx,
                                      adj, strict)
            /\ run' = RunRecord("ResetToOriginal", idx, adj, NeutralTransform,
                                NeutralEnhancement, FALSE)
    /\ UNCHANGED <<original_images, uploaded_files, calc>>

\* lines 747-751: Reset to Original, then the rerun's live preview
ResetToOriginal(idx, adj, strict) ==
    /\ Editing(idx)
    /\ IF LiveRaises(edited_images, idx, adj, strict)
       THEN /\ shown' = working_images[idx]
            /\ run' = RunRecord("ResetToOriginal", idx, adj, NeutralTransform,
                                NeutralEnhancement, TRUE)
            /\ UNCHANGED <<working_images, edited_images>>
       ELSE /\ working_images' = [working_images EXCEPT ![idx] = original_images[idx]]
            /\ edited_images' = [edited_images EXCEPT ![idx] = original_images[idx]]
            /\ shown' = LivePreviewOf(edited_images', working_images', idx,
                                      adj, strict)
            /\ run' = RunRecord("ResetToOriginal", idx, adj, NeutralTransform,
                                NeutralEnhancement, FALSE)
    /\ UNCHANGED <<original_images, uploaded_files, calc>>

\* a transform commit that writes original_images where line 797 writes
\* edited_images
TransformRun_IntoOriginals(op, commit, idx, adj, t, strict) ==
    /\ Editing(idx)
    /\ LET temp_edited == TransformChain(working_images[idx], t, strict)
           failed == LiveRaises(edited_images, idx, adj, strict)
                        \/ temp_edited = Raised
       IN /\ run' = RunRecord(op, idx, NeutralAdj, t, NeutralEnhancement, failed)
          /\ shown' = IF failed
                      THEN LivePreviewOf(edited_images, working_images, idx,
                                         adj, strict)
                      ELSE temp_edited
          /\ IF commit /\ ~failed
             THEN /\ working_images' = [working_images EXCEPT ![idx] = temp_edited]
                  /\ original_images' = [original_images EXCEPT ![idx] = temp_edited]
                  /\ WithinOps(working_images')
             ELSE UNCHANGED <<working_images, original_images>>
    /\ UNCHANGED <<edited_images, uploaded_files, calc>>

\* lines 764-779 (commit = FALSE) and 781-799 (commit = TRUE): the live
\* preview has already run when the button's block is reached
TransformRun(op, commit, idx, adj, t, strict) ==
    /\ Editing(idx)
    /\ LET temp_edited == TransformChain(working_images[idx], t, strict)
           failed == LiveRaises(edited_images, idx, adj, strict)
                        \/ temp_edited = Raised
       IN /\ run' = RunRecord(op, idx, NeutralAdj, t, NeutralEnhancement, failed)
          /\ shown' = IF failed
                      THEN LivePreviewOf(edited_images, working_images, idx,
                                         adj, strict)
                      ELSE temp_edited
          /\ IF commit /\ ~failed
             THEN /\ working_images' = [working_images EXCEPT ![idx] = temp_edited]
                  /\ edited_images' = [edited_images EXCEPT ![idx] = temp_edited]
                  /\ WithinOps(working_images')
             ELSE UNCHANGED <<working_images, edited_images>>
    /\ UNCHANGED <<original_images, uploaded_files, calc>>

PreviewTransform(idx, adj, t, strict) ==
    TransformRun("PreviewTransform", FALSE, idx, adj, t, strict)

ApplyTransform(idx, adj, t, strict) ==
    TransformRun("ApplyTransform", TRUE, idx, adj, t, strict)

\* an enhancement run that starts from the original image
EnhancementRun_FromOriginal(op, commit, idx, adj, e, strict) ==
    /\ Editing(idx)
    /\ LET temp_edited == EnhancementChain(original_images[idx], e, strict)
           failed == LiveRaises(edited_images, idx, adj, strict)
                        \/ temp_edited = Raised
       IN /\ run' = RunRecord(op, idx, NeutralAdj, NeutralTransform, e, failed)
          /\ shown' = IF failed
                      THEN LivePreviewOf(edited_images, working_images, idx,
                                         adj, strict)
                      ELSE temp_edited
          /\ IF commit /\ ~failed
             THEN /\ working_images' = [working_images EXCEPT ![idx] = temp_edited]
                  /\ edited_images' = [edited_images EXCEPT ![idx] = temp_edited]
                  /\ WithinOps(working_images')
             ELSE UNCHANGED <<working_images, edited_images>>
    /\ UNCHANGED <<original_images, uploaded_files, calc>>

\* lines 811-820 (commit = FALSE) and 822-834 (commit = TRUE)
EnhancementRun(op, commit, idx, adj, e, strict) ==
    /\ Editing(idx)
    /\ LET temp_edited == EnhancementChain(working_images[idx], e, strict)
           failed == LiveRaises(edited_images, idx, adj, strict)
                        \/ temp_edited = Raised
       IN /\ run' = RunRecord(op, idx, NeutralAdj, NeutralTransform, e, failed)
          /\ shown' = IF failed
                      THEN LivePreviewOf(edited_images, working_images, idx,
                                         adj, strict)
                      ELSE temp_edited
          /\ IF commit /\ ~failed
             THEN /\ working_images' = [working_images EXCEPT ![idx] = temp_edited]
                  /\ edited_images' = [edited_images EXCEPT ![idx] = temp_edited]
                  /\ WithinOps(working_images')
             ELSE UNCHANGED <<working_images, edited_images>>
    /\ UNCHANGED <<original_images, uploaded_files, calc>>

PreviewEnhancement(idx, adj, e, strict) ==
    EnhancementRun("PreviewEnhancement", FALSE, idx, adj, e, strict)

ApplyEnhancement(idx, adj, e, strict) ==
    EnhancementRun("ApplyEnhancement", TRUE, idx, adj, e, strict)

\* the batch loop adjusting the image of the selected photo
BatchSource_Selected(working, i, selected_idx) == working[selected_idx]

\* the image the batch loop adjusts for photo i (line 844)
BatchSource(working, i, selected_idx) == working[i]

\* lines 841-848: the loop over range(len(original_images)) from index i
\* on; a raise inside it (apply_basic_adjustments, or the IndexError of
\* working_images[i]) leaves the loop with the earlier writes done
RECURSIVE BatchLoop(_, _, _, _, _, _)
BatchLoop(working, edited, i, selected_idx, adj, strict) ==
    IF i > Len(original_images) THEN [working |-> working, edited |-> edited,
                                     raised |-> FALSE]
    ELSE IF i = selected_idx
    THEN BatchLoop(working, edited, i + 1, selected_idx, adj, strict)
    ELSE IF i > Len(working)
    THEN [working |-> working, edited |-> edited, raised |-> TRUE]
    ELSE LET result == Adjust(BatchSource(working, i, selected_idx), adj, strict)
         IN IF result = Raised
            THEN [working |-> working, edited |-> edited, raised |-> TRUE]
            ELSE BatchLoop([working EXCEPT ![i] = result],
                           [edited EXCEPT ![i] = result],
                           i + 1, selected_idx, adj, strict)

\* the handler without the assignment of line 848
ApplyToAll_WorkingOnly(idx, adj, strict) ==
    /\ Editing(idx)
    /\ Len(original_images) > 1
    /\ IF LiveRaises(edited_images, idx, adj, strict)
       THEN /\ shown' = working_images[idx]
            /\ run' = RunRecord("ApplyToAll", idx, adj, NeutralTransform,
                                NeutralEnhancement, TRUE)
            /\ UNCHANGED <<working_images, edited_images>>
       ELSE LET batch == BatchLoop(working_images, edited_images, 1, idx,
                                   adj, strict)
            IN /\ working_images' = batch.working
               /\ edited_images' = edited_images
               /\ WithinOps(working_images')
               /\ shown' = LivePreviewOf(edited_images', working_images', idx,
                                         adj, strict)
               /\ run' = RunRecord("ApplyToAll", idx, adj, NeutralTransform,
                                   NeutralEnhancement, batch.raised)
    /\ UNCHANGED <<original_images, uploaded_files, calc>>

\* lines 837-850: Apply Current Image Settings to All Images, then the
\* rerun's live preview
ApplyToAll(idx, adj, strict) ==
    /\ Editing(idx)
    /\ Len(original_images) > 1
    /\ IF LiveRaises(edited_images, idx, adj, strict)
       THEN /\ shown' = working_images[idx]
            /\ run' = RunRecord("ApplyToAll", idx, adj, NeutralTransform,
                                NeutralEnhancement, TRUE)
            /\ UNCHANGED <<working_images, edited_images>>
       ELSE LET batch == BatchLoop(working_images, edited_images, 1, idx,
                                   adj, strict)
            IN /\ working_images' = batch.working
               /\ edited_images' = batch.edited
               /\ WithinOps(working_images')
               /\ shown' = LivePreviewOf(edited_images', working_images', idx,
                                         adj, strict)
               /\ run' = RunRecord("ApplyToAll", idx, adj, NeutralTransform,
                                   NeutralEnhancement, batch.raised)
    /\ UNCHANGED <<original_images, uploaded_files, calc>>

\* the slider settings that make a difference to a run whose button is not
\* one of the basic adjustments: they decide only whether the live preview
\* raises, which it can do only on an empty image
SlidersSeen(idx) ==
    IF idx \in DOMAIN edited_images /\ ZeroArea(edited_images[idx])
    THEN Adjustments ELSE {NeutralAdj}

\* the first upload of a session
LoadBatch(files, idx, adj, strict) ==
    /\ uploaded_files = <<>>
    /\ Upload(files, idx, adj, strict)

Positions == 1..2

Next ==
    \/ \E files \in Batches, idx \in Positions, adj \in Adjustments :
          LoadBatch(files, idx, adj, FALSE)
    \/ \E idx \in Positions, adj \in Adjustments, strict \in PilBuilds(FALSE) :
          LivePreview(idx, adj, strict)
    \/ \E idx \in Positions, adj \in Adjustments, strict \in PilBuilds(FALSE) :
          SaveAdjustments(idx, adj, strict)
    \/ \E idx \in Positions, adj \in Adjustments, strict \in PilBuilds(FALSE) :
          ResetToOriginal(idx, adj, strict)
    \/ \E idx \in Positions, t \in Transforms :
          \E adj \in SlidersSeen(idx), strict \in PilBuilds(t.crop # "Original") :
             PreviewTransform(idx, adj, t, strict)
    \/ \E idx \in Positions, t \in Transforms :
          \E adj \in SlidersSeen(idx), strict \in PilBuilds(t.crop # "Original") :
             ApplyTransform(idx, adj, t, strict)
    \/ \E idx \in Positions, e \in Enhancements :
          \E adj \in SlidersSeen(idx), strict \in PilBuilds(FALSE) :
             PreviewEnhancement(idx, adj, e, strict)
    \/ \E idx \in Positions, e \in Enhancements :
          \E adj \in SlidersSeen(idx), strict \in PilBuilds(FALSE) :
             ApplyEnhancement(idx, adj, e, strict)
    \/ \E idx \in Positions, adj \in Adjustments, strict \in PilBuilds(FALSE) :
          ApplyToAll(idx, adj, strict)

Spec == Init /\ [][Next]_vars

----------------------------------------------------------------------------
(* A session in which the uploaded files change: files are added, removed *)
(* and replaced, and some of them are no image or are cut short            *)

FileLists ==
    {<<>>, <<1>>, <<2>>, <<1, 2>>, <<2, 1>>, <<1, 3>>, <<4>>, <<1, 2, 4>>}

Slots == 1..3

NextUpload ==
    \/ \E files \in FileLists, idx \in Slots : Upload(files, idx, NeutralAdj, FALSE)
    \/ \E idx \in Slots : IndexGuard(idx)
    \/ \E idx \in Slots, adj \in Adjustments : SaveAdjustments(idx, adj, FALSE)
    \/ \E idx \in Slots : ResetToOriginal(idx, NeutralAdj, FALSE)
    \/ \E idx \in Slots, adj \in Adjustments : ApplyToAll(idx, adj, FALSE)

SpecUpload == Init /\ [][NextUpload]_vars

----------------------------------------------------------------------------
(* crop_image called on its own: every size up to MaxDim, every free ratio *)
(* up to MaxRatio and the presets                                          *)

Blank(width, height) ==
    [src |-> 0, mode |-> "RGB", w |-> width, h |-> height, ops |-> <<>>]

Ratios ==
    ((1..MaxRatio) \X (1..MaxRatio))
        \cup {CROP_PRESETS[name] : name \in DOMAIN CROP_PRESETS \ {"Original"}}

InitCrop ==
    /\ original_images = <<>>
    /\ edited_images = <<>>
    /\ working_images = <<>>
    /\ uploaded_files = <<>>
    /\ shown = NoImage
    /\ run = RunRecord("Start", 0, NeutralAdj, NeutralTransform,
                       NeutralEnhancement, FALSE)
    /\ \E width \in 1..MaxDim, height \in 1..MaxDim, ratio \in Ratios :
          calc = [fn |-> "crop_image", image |-> Blank(width, height),
                  ratio |-> ratio, result |-> NoImage, done |-> FALSE]

CallCrop ==
    /\ calc.fn = "crop_image"
    /\ ~calc.done
    /\ calc' = [calc EXCEPT !.result = crop_image(calc.image, calc.ratio),
                            !.done = TRUE]
    /\ UNCHANGED sessionVars

NextCrop == CallCrop

SpecCrop == InitCrop /\ [][NextCrop]_vars

----------------------------------------------------------------------------
(* resize_image called on its own: 100 percent, and 50 then 200 percent    *)

InitResize ==
    /\ original_images = <<>>
    /\ edited_images = <<>>
    /\ working_images = <<>>
    /\ uploaded_files = <<>>
    /\ shown = NoImage
    /\ run = RunRecord("Start", 0, NeutralAdj, NeutralTransform,
                       NeutralEnhancement, FALSE)
    /\ \E width \in 1..MaxDim, height \in 1..MaxDim :
          calc = [fn |-> "resize_image", image |-> Blank(width, height),
                  result |-> Blank(width, height), percents |-> <<>>]

\* one more call of resize_image on the result of the calls so far
CallResize(scale_percent) ==
    /\ calc.fn = "resize_image"
    /\ calc.result # Raised
    /\ \/ calc.percents = <<>>
       \/ calc.percents = <<50>> /\ scale_percent = 200
    /\ calc' = [calc EXCEPT !.result = resize_image(calc.result, scale_percent),
                            !.percents = Append(@, scale_percent)]
    /\ UNCHANGED sessionVars

NextResize == \E scale_percent \in {50, 100, 200} : CallResize(scale_percent)

SpecResize == InitResize /\ [][NextResize]_vars

----------------------------------------------------------------------------
(* generate_image_variation: the instruction text and the payload handed   *)
(* to the remote generator, and what the call returns.  A text is the      *)
(* sequence of its clauses; an empty clause adds nothing to it.  Python's   *)
(* None is NoImage for an image and 0 for an age (both are falsy).          *)

Clause(kind, items) == <<[kind |-> kind, items |-> items, years |-> 0]>>

\* lines 360-365: tone_map
tone_map ==
    [x \in {"Much Darker", "Darker", "Lighter", "Much Lighter"} |->
        CASE x = "Much Darker" -> "adjust skin tone: deeper, richer"
          [] x = "Darker" -> "adjust skin tone: slightly deeper"
          [] x = "Lighter" -> "adjust skin tone: slightly lighter"
          [] x = "Much Lighter" -> "adjust skin tone: lighter, brighter"]

\* enhancements_list.append(text) if the flag is set
Item(flag, text) == IF flag THEN <<text>> ELSE <<>>

\* lines 349-373: enhancements_list, in the order of the appends
enhancements_list(enhancements) ==
    Item(enhancements.hair, "subtle hair enhancement")
    \o Item(enhancements.remove_grey_hair, "restore natural hair color")
    \o Item(enhancements.skin, "smooth flawless skin")
    \o Item(enhancements.skin_tone # "Natural", tone_map[enhancements.skin_tone])
    \o Item(enhancements.teeth, "bright white teeth")
    \o Item(enhancements.eyes, "bright clear eyes")
    \o Item(enhancements.lighting, "professional studio lighting")
    \o Item(enhancements.sharpness, "enhanced sharpness and clarity")

\* lines 346-376
enhancement_text(enhancements) ==
    IF enhancements_list(enhancements) # <<>>
    THEN Clause("enhancements", enhancements_list(enhancements))
    ELSE <<>>

\* lines 383-391: the keys of age_map
age_map ==
    {"Child (5-12 years)", "Teenager (13-19 years)",
     "Young Adult (20-30 years)", "Adult (31-45 years)",
     "Middle Age (46-60 years)", "Senior (61-75 years)",
     "Elderly (76+ years)"}

\* lines 378-393
age_text(preserve_age, target_age, detected_age) ==
    IF preserve_age /\ detected_age # 0
    THEN <<[kind |-> "age", items |-> <<"approximately">>,
            years |-> detected_age]>>
    ELSE IF ~preserve_age /\ target_age # ""
            /\ target_age # "Same Age (No Change)"
    THEN IF target_age \in age_map
         THEN Clause("age", <<"Transform", target_age>>)
         ELSE <<>>
    ELSE <<>>

\* lines 395-399
framing_text(style_name) ==
    IF style_name = "professional"
    THEN Clause("framing", <<"Frame from head to chest">>)
    ELSE IF style_name = "passport"
    THEN Clause("framing", <<"Passport photo format">>)
    ELSE <<>>

\* lines 403-404
background_text(custom_background) ==
    IF custom_background # NoImage
    THEN Clause("background", <<"Replace the background">>)
    ELSE <<>>

\* lines 407-411 and 435-439, on the value read from
\* st.session_state.model_photo
model_photo_text_Kept(model_photo) ==
    IF model_photo # NoImage \/ (calc.call.built /\ calc.call.model_photo # NoImage)
    THEN Clause("model photo", <<"Match the style">>)
    ELSE <<>>

model_photo_text(model_photo) ==
    IF model_photo # NoImage
    THEN Clause("model photo", <<"Match the style">>)
    ELSE <<>>

\* lines 414 and 441: the two f-strings
prompt_AgeFirst(a, model_photo) ==
    Clause("body", <<a.variation_prompt>>)
    \o age_text(a.preserve_age, a.target_age, a.detected_age)
    \o framing_text(a.style_name)
    \o enhancement_text(a.enhancements)
    \o background_text(a.custom_background)
    \o model_photo_text(model_photo)
    \o (IF a.custom_background # NoImage
        THEN Clause("closing", <<"Keep changes natural and subtle">>)
        ELSE Clause("closing", <<"Keep changes subtle and natural">>))

prompt(a, model_photo) ==
    Clause("body", <<a.variation_prompt>>)
    \o framing_text(a.style_name)
    \o age_text(a.preserve_age, a.target_age, a.detected_age)
    \o enhancement_text(a.enhancements)
    \o background_text(a.custom_background)
    \o model_photo_text(model_photo)
    \o (IF a.custom_background # NoImage
        THEN Clause("closing", <<"Keep changes natural and subtle">>)
        ELSE Clause("closing", <<"Keep changes subtle and natural">>))

\* the three kinds of entries of content_parts
TextPart(text) == <<[label |-> "", text |-> text, image |-> NoImage]>>
LabelPart(label) == <<[label |-> label, text |-> <<>>, image |-> NoImage]>>
ImagePart(image) == <<[label |-> "", text |-> <<>>, image |-> image]>>

\* lines 428-430 and 455-457
content_parts(a, model_photo) ==
    TextPart(prompt(a, model_photo))
    \o ImagePart(a.image)
    \o (IF a.custom_background # NoImage
        THEN LabelPart("Custom background reference:")
             \o ImagePart(a.custom_background)
        ELSE <<>>)
    \o (IF model_photo # NoImage
        THEN LabelPart("Style reference (model photo):")
             \o ImagePart(model_photo)
        ELSE <<>>)

\* lines 467-474: the image of the first part of the response that has one
Generated(image) ==
    convert_to_rgb([image EXCEPT !.ops = Append(@, <<"generate_content", 0>>)])

\* what the remote call does: it answers with an image, with text only,
\* with a blocked candidate or with nothing, or it raises
Responses == {"image", "text", "blocked", "empty", "raises"}

\* lines 333-507: the value returned
generate_image_variation(a, api_key, response) ==
    IF ~api_key THEN NoImage
    ELSE IF response = "raises" THEN a.image
    ELSE IF response = "image" THEN Generated(a.image)
    ELSE a.image

NoCall ==
    [built |-> FALSE, model_photo |-> NoImage, response |-> "none",
     prompt |-> <<>>, parts |-> <<>>, result |-> NoImage]

\* one call: what it read from the session, what it sent and what it
\* returned
CallRecord(a, api_key, model_photo, response) ==
    [built |-> api_key,
     model_photo |-> IF api_key THEN model_photo ELSE NoImage,
     response |-> IF api_key THEN response ELSE "not sent",
     prompt |-> IF api_key THEN prompt(a, model_photo) ELSE <<>>,
     parts |-> IF api_key THEN content_parts(a, model_photo) ELSE <<>>,
     result |-> generate_image_variation(a, api_key, response)]

EnhancementFlags ==
    LET flags(h, g, s, tone, t, e, l, sh) ==
           [hair |-> h, remove_grey_hair |-> g, skin |-> s, skin_tone |-> tone,
            teeth |-> t, eyes |-> e, lighting |-> l, sharpness |-> sh]
    IN {flags(FALSE, FALSE, FALSE, "Natural", FALSE, FALSE, TRUE, TRUE),
        flags(FALSE, FALSE, FALSE, "Natural", FALSE, FALSE, FALSE, FALSE),
        flags(TRUE, TRUE, TRUE, "Darker", TRUE, TRUE, TRUE, TRUE),
        flags(FALSE, TRUE, FALSE, "Much Lighter", TRUE, FALSE, FALSE, FALSE),
        flags(TRUE, FALSE, TRUE, "Natural", FALSE, TRUE, FALSE, TRUE),
        flags(FALSE, FALSE, TRUE, "Lighter", FALSE, FALSE, TRUE, FALSE)}

\* one variation of three of the categories of STYLE_VARIATIONS
Styles ==
    {<<"passport", "US Passport">>, <<"professional", "LinkedIn Classic">>,
     <<"fun", "Retro Fun">>}

Photo == convert_to_rgb(ImageOpen(1))
BackgroundPhoto == convert_to_rgb(ImageOpen(2))

StyleArgs ==
    {[image |-> Photo, style_name |-> s[1], variation_prompt |-> s[2],
      enhancements |-> e, custom_background |-> bg, preserve_age |-> p,
      target_age |-> t, detected_age |-> d] :
        s \in Styles, e \in EnhancementFlags, bg \in {NoImage, BackgroundPhoto},
        p \in BOOLEAN, t \in {"", "Same Age (No Change)", "Senior (61-75 years)"},
        d \in {0, 30}}

InitStyle ==
    /\ original_images = <<>>
    /\ edited_images = <<>>
    /\ working_images = <<>>
    /\ uploaded_files = <<>>
    /\ shown = NoImage
    /\ run = RunRecord("Start", 0, NeutralAdj, NeutralTransform,
                       NeutralEnhancement, FALSE)
    /\ \E a \in StyleArgs, api_key \in BOOLEAN :
          calc = [fn |-> "generate_image_variation", args |-> a,
                  api_key |-> api_key, model_photo |-> NoImage,
                  call |-> NoCall, previous |-> NoCall]

\* lines 895-921: the model photo is uploaded, or removed
SetModelPhoto(model_photo) ==
    /\ calc.fn = "generate_image_variation"
    /\ model_photo # calc.model_photo
    /\ calc' = [calc EXCEPT !.model_photo = model_photo]
    /\ UNCHANGED sessionVars

\* lines 1132-1141: one call with the arguments of this session
CallStyle(response) ==
    /\ calc.fn = "generate_image_variation"
    /\ calc' = [calc EXCEPT
                  !.call = CallRecord(calc.args, calc.api_key, calc.model_photo,
                                      response),
                  !.previous = calc.call]
    /\ UNCHANGED sessionVars

NextStyle ==
    \/ \E model_photo \in {NoImage, convert_to_rgb(ImageOpen(2))} :
          SetModelPhoto(model_photo)
    \/ \E response \in Responses : CallStyle(response)

SpecStyle == InitStyle /\ [][NextStyle]_vars

----------------------------------------------------------------------------
(* create_zip_file.  A name is the sequence of its characters. *)

MaxName == 2

Chars == {"a", " ", "/", "_"}

RECURSIVE Strings(_)
Strings(n) ==
    IF n = 0 THEN {<<>>}
    ELSE Strings(n - 1)
         \cup {Append(s, c) : s \in {t \in Strings(n - 1) : Len(t) = n - 1},
                              c \in Chars}

\* str.replace(old, new) for one-character strings
replace(name, old, new) ==
    [i \in DOMAIN name |-> IF name[i] = old THEN new ELSE name[i]]

\* line 610
safe_name(name) == replace(replace(name, " ", "_"), "/", "_")

\* lines 603-608: the bytes image.save writes
SaveJpeg(image) == [format |-> "JPEG", image |-> convert_to_rgb(image)]

\* lines 602-611: the entries written for the items of the dict from
\* position i on, in the order of the dict
RECURSIVE ZipEntries(_, _)
ZipEntries(images_dict, i) ==
    IF i > Len(images_dict) THEN <<>>
    ELSE <<[name |-> safe_name(images_dict[i].name) \o <<".jpg">>,
            data |-> SaveJpeg(images_dict[i].image)]>>
         \o ZipEntries(images_dict, i + 1)

\* lines 598-616
create_zip_file(images_dict) == ZipEntries(images_dict, 1)

\* the files that unpacking an archive leaves: an entry replaces the file
\* an earlier entry of the same name left
Unpacked(archive) ==
    {archive[i] : i \in {k \in DOMAIN archive :
                            \A j \in DOMAIN archive :
                               j > k => archive[j].name # archive[k].name}}

\* a dict of one or two named images; the keys of a dict are distinct
Dicts ==
    LET names == Strings(MaxName)
    IN {<<[name |-> n, image |-> ImageOpen(1)]>> : n \in names}
       \cup {<<[name |-> p[1], image |-> ImageOpen(1)],
               [name |-> p[2], image |-> ImageOpen(2)]>> :
                p \in {q \in names \X names : q[1] # q[2]}}

InitZip ==
    /\ original_images = <<>>
    /\ edited_images = <<>>
    /\ working_images = <<>>
    /\ uploaded_files = <<>>
    /\ shown = NoImage
    /\ run = RunRecord("Start", 0, NeutralAdj, NeutralTransform,
                       NeutralEnhancement, FALSE)
    /\ \E images_dict \in Dicts :
          calc = [fn |-> "create_zip_file", images_dict |-> images_dict,
                  done |-> FALSE, archive |-> <<>>]

CallZip ==
    /\ calc.fn = "create_zip_file"
    /\ ~calc.done
    /\ calc' = [calc EXCEPT !.done = TRUE,
                            !.archive = create_zip_file(calc.images_dict)]
    /\ UNCHANGED sessionVars

NextZip == CallZip

SpecZip == InitZip /\ [][NextZip]_vars

----------------------------------------------------------------------------
(* SimpleAuthenticator (simple_auth.py): the credential store, the clock   *)
(* and the last call.  Time is counted in hours; a stored expiry is the    *)
(* ISO text of a time, None is the empty sequence.                          *)

MaxTime == 4

None == <<>>

\* datetime.isoformat and datetime.fromisoformat
isoformat(t) == <<"T", t>>
fromisoformat(s) == s[2]

\* lines 70-73: SHA-256, taken to be free of collisions
hash_password(password) == <<"sha256", password>>

GenericFailure == "Invalid username or password"
ExpiredFailure == "Account has expired. Please contact support."

Result(success, message) == [success |-> success, message |-> message]

\* lines 82-86: the account has an expiry and it has passed
HasExpired_AtExpiry(user_data, now) ==
    /\ user_data.expiry # None
    /\ now >= fromisoformat(user_data.expiry)

HasExpired(user_data, now) ==
    /\ user_data.expiry # None
    /\ now > fromisoformat(user_data.expiry)

\* lines 75-93
verify_credentials_UserNotFound(credentials, now, username, password) ==
    IF username \notin DOMAIN credentials
    THEN Result(FALSE, "User not found")
    ELSE IF HasExpired(credentials[username], now)
    THEN Result(FALSE, ExpiredFailure)
    ELSE IF credentials[username].password = hash_password(password)
    THEN Result(TRUE, "Success")
    ELSE Result(FALSE, GenericFailure)

verify_credentials(credentials, now, username, password) ==
    IF username \notin DOMAIN credentials
    THEN Result(FALSE, GenericFailure)
    ELSE IF HasExpired(credentials[username], now)
    THEN Result(FALSE, ExpiredFailure)
    ELSE IF credentials[username].password = hash_password(password)
    THEN Result(TRUE, "Success")
    ELSE Result(FALSE, GenericFailure)

\* the outcome of a call that may write the store
Outcome(credentials, success, message) ==
    [credentials |-> credentials, success |-> success, message |-> message]

\* the outcome of add_user: the store and the returned triple
Created(credentials, success, message, expiry_time) ==
    [credentials |-> credentials, success |-> success, message |-> message,
     expiry_time |-> expiry_time]

\* lines 95-126; expiry_hours 0 is falsy, as None is
add_user(credentials, now, username, password, expiry_hours) ==
    IF username \in DOMAIN credentials
    THEN Created(credentials, FALSE, "Username already exists", None)
    ELSE LET expiry_time == IF expiry_hours # 0
                            THEN isoformat(now + expiry_hours) ELSE None
             user_data == [password |-> hash_password(password),
                           expiry |-> expiry_time]
             added == [u \in DOMAIN credentials \cup {username} |->
                          IF u = username THEN user_data ELSE credentials[u]]
         IN IF expiry_time # None
            THEN Created(added, TRUE, "User created successfully. Account expires",
                         expiry_time)
            ELSE Created(added, TRUE,
                         "User created successfully (permanent account)", None)

\* lines 128-140
add_trial_user(credentials, now, username, password, trial_hours) ==
    add_user(credentials, now, username, password, trial_hours)

\* lines 199-215
extend_account_FromNow(credentials, username, additional_hours) ==
    IF username \notin DOMAIN credentials
    THEN Outcome(credentials, FALSE, "User not found")
    ELSE IF credentials[username].expiry = None
    THEN Outcome(credentials, FALSE,
                 "Account has no expiration (permanent account)")
    ELSE Outcome([credentials EXCEPT
                     ![username].expiry = isoformat(calc.now + additional_hours)],
                 TRUE, "Account extended until")

extend_account(credentials, username, additional_hours) ==
    IF username \notin DOMAIN credentials
    THEN Outcome(credentials, FALSE, "User not found")
    ELSE IF credentials[username].expiry = None
    THEN Outcome(credentials, FALSE,
                 "Account has no expiration (permanent account)")
    ELSE LET current_expiry == fromisoformat(credentials[username].expiry)
             new_expiry == current_expiry + additional_hours
         IN Outcome([credentials EXCEPT ![username].expiry = isoformat(new_expiry)],
                    TRUE, "Account extended until")

\* lines 217-225
change_password_Unverified(credentials, now, username, old_password, new_password) ==
    IF username \notin DOMAIN credentials
    THEN Outcome(credentials, FALSE, GenericFailure)
    ELSE Outcome([credentials EXCEPT
                     ![username].password = hash_password(new_password)],
                 TRUE, "Password changed successfully")

change_password(credentials, now, username, old_password, new_password) ==
    LET verified == verify_credentials(credentials, now, username, old_password)
    IN IF ~verified.success
       THEN Outcome(credentials, FALSE, verified.message)
       ELSE Outcome([credentials EXCEPT
                        ![username].password = hash_password(new_password)],
                    TRUE, "Password changed successfully")

\* lines 51-60: the store written when there is no credentials file
default_creds ==
    [u \in {"admin", "demo"} |->
        [password |-> hash_password(IF u = "admin" THEN "admin123" ELSE "demo123"),
         expiry |-> None]]

Usernames == {"admin", "demo", "trial", "nobody"}
Passwords == {"admin123", "demo123"}
Hours == {0, 1, 2}

CallOf(op, username, password, at, success, message) ==
    [op |-> op, username |-> username, password |-> password, at |-> at,
     success |-> success, message |-> message, hours |-> 0,
     expiry_time |-> None]

\* a call that takes a number of hours
TimedCallOf(op, username, password, at, success, message, hours, expiry_time) ==
    [CallOf(op, username, password, at, success, message)
        EXCEPT !.hours = hours, !.expiry_time = expiry_time]

InitAuth ==
    /\ original_images = <<>>
    /\ edited_images = <<>>
    /\ working_images = <<>>
    /\ uploaded_files = <<>>
    /\ shown = NoImage
    /\ run = RunRecord("Start", 0, NeutralAdj, NeutralTransform,
                       NeutralEnhancement, FALSE)
    /\ calc = [fn |-> "SimpleAuthenticator", credentials |-> default_creds,
               now |-> 0, call |-> CallOf("__init__", "", "", 0, TRUE, "")]

\* datetime.now() moves on
Tick ==
    /\ calc.fn = "SimpleAuthenticator"
    /\ calc.now < MaxTime
    /\ calc' = [calc EXCEPT !.now = @ + 1]
    /\ UNCHANGED sessionVars

CallVerify(username, password) ==
    /\ calc.fn = "SimpleAuthenticator"
    /\ LET r == verify_credentials(calc.credentials, calc.now, username, password)
       IN calc' = [calc EXCEPT !.call = CallOf("verify_credentials", username,
                                               password, calc.now, r.success,
                                               r.message)]
    /\ UNCHANGED sessionVars

CallAddUser(username, password, expiry_hours) ==
    /\ calc.fn = "SimpleAuthenticator"
    /\ LET r == add_user(calc.credentials, calc.now, username, password,
                         expiry_hours)
       IN calc' = [calc EXCEPT !.credentials = r.credentials,
                               !.call = TimedCallOf("add_user", username,
                                           password, calc.now, r.success,
                                           r.message, expiry_hours,
                                           r.expiry_time)]
    /\ UNCHANGED sessionVars

CallAddTrialUser(username, password, trial_hours) ==
    /\ calc.fn = "SimpleAuthenticator"
    /\ LET r == add_trial_user(calc.credentials, calc.now, username, password,
                               trial_hours)
       IN calc' = [calc EXCEPT !.credentials = r.credentials,
                               !.call = TimedCallOf("add_trial_user", username,
                                           password, calc.now, r.success,
                                           r.message, trial_hours,
                                           r.expiry_time)]
    /\ UNCHANGED sessionVars

CallExtend(username, additional_hours) ==
    /\ calc.fn = "SimpleAuthenticator"
    /\ LET r == extend_account(calc.credentials, username, additional_hours)
       IN /\ \A u \in DOMAIN r.credentials :
                r.credentials[u].expiry # None =>
                   fromisoformat(r.credentials[u].expiry) <= MaxTime + 2
          /\ calc' = [calc EXCEPT !.credentials = r.credentials,
                                  !.call = TimedCallOf("extend_account", username,
                                              "", calc.now, r.success, r.message,
                                              additional_hours, None)]
    /\ UNCHANGED sessionVars

CallChangePassword(username, old_password, new_password) ==
    /\ calc.fn = "SimpleAuthenticator"
    /\ LET r == change_password(calc.credentials, calc.now, username,
                                old_password, new_password)
       IN calc' = [calc EXCEPT !.credentials = r.credentials,
                               !.call = CallOf("change_password", username,
                                               old_password, calc.now, r.success,
                                               r.message)]
    /\ UNCHANGED sessionVars

NextAuth ==
    \/ Tick
    \/ \E username \in Usernames, password \in Passwords :
          CallVerify(username, password)
    \/ \E username \in Usernames \ {"nobody"}, password \in Passwords,
          expiry_hours \in Hours :
          CallAddUser(username, password, expiry_hours)
    \/ \E username \in Usernames \ {"nobody"}, password \in Passwords,
          trial_hours \in Hours :
          CallAddTrialUser(username, password, trial_hours)
    \/ \E username \in Usernames, additional_hours \in Hours \ {0} :
          CallExtend(username, additional_hours)
    \/ \E username \in Usernames, old_password \in Passwords,
          new_password \in Passwords :
          CallChangePassword(username, old_password, new_password)

SpecAuth == InitAuth /\ [][NextAuth]_vars

----------------------------------------------------------------------------
(* apply_basic_adjustments as a function of its arguments *)

\* values of one slider, in tenths (lines 725-730: 0.5 to 2.0)
Factors == {5, Neutral, 12, 20}

InitAdjust ==
    /\ original_images = <<>>
    /\ edited_images = <<>>
    /\ working_images = <<>>
    /\ uploaded_files = <<>>
    /\ shown = NoImage
    /\ run = RunRecord("Start", 0, NeutralAdj, NeutralTransform,
                       NeutralEnhancement, FALSE)
    /\ \E image \in {Blank(4, 2), convert_to_rgb(ImageOpen(2)), Blank(3, 0)},
          b \in Factors, c \in Factors, s \in Factors, sh \in Factors :
          calc = [fn |-> "apply_basic_adjustments", image |-> image,
                  adj |-> [brightness |-> b, contrast |-> c, saturation |-> s,
                           sharpness |-> sh],
                  done |-> FALSE, result |-> NoImage]

CallAdjust(strict) ==
    /\ calc.fn = "apply_basic_adjustments"
    /\ ~calc.done
    /\ calc' = [calc EXCEPT !.done = TRUE,
                            !.result = Adjust(calc.image, calc.adj, strict)]
    /\ UNCHANGED sessionVars

NextAdjust == \E strict \in BOOLEAN : CallAdjust(strict)

SpecAdjust == InitAdjust /\ [][NextAdjust]_vars

----------------------------------------------------------------------------
(* The generation loops of the Style Conversion tab (lines 1107-1153 and   *)
(* 1207-1252).  Each remote call is one step; calc holds the position of   *)
(* the loop, the progress counter and the dict of results.                  *)

\* the arguments of the call for one photo and one variation (lines
\* 1132-1141), with the default enhancement flags and age settings
CallArgs(image, selected_style, var_name, custom_background) ==
    [image |-> image, style_name |-> selected_style,
     variation_prompt |-> var_name,
     enhancements |-> [hair |-> FALSE, remove_grey_hair |-> FALSE,
                       skin |-> FALSE, skin_tone |-> "Natural",
                       teeth |-> FALSE, eyes |-> FALSE, lighting |-> TRUE,
                       sharpness |-> TRUE],
     custom_background |-> custom_background, preserve_age |-> TRUE,
     target_age |-> "", detected_age |-> 0]

\* f"img{img_idx+1}_{var_name}": the number ends at the first underscore,
\* so the text determines the pair; img_idx counts from 1 here
ResultKey_NameOnly(img_idx, var_name) == <<"img", 1, var_name>>

ResultKey(img_idx, var_name) == <<"img", img_idx, var_name>>

\* generated_images[key] = generated
Store(generated_images, key, generated) ==
    [k \in DOMAIN generated_images \cup {key} |->
        IF k = key THEN generated ELSE generated_images[k]]

\* selected_samples: the variations ticked, in the order of ticking
Selections ==
    {<<"Retro Fun">>, <<"Retro Fun", "Festival Vibes">>,
     <<"Festival Vibes", "Retro Fun">>}

InitGenerate ==
    /\ \E files \in Batches :
          /\ uploaded_files = files
          /\ original_images = [i \in 1..Len(files) |->
                                  convert_to_rgb(ImageOpen(files[i]))]
          /\ edited_images = original_images
          /\ working_images = original_images
          /\ shown = original_images[1]
          /\ run = RunRecord("Upload", 1, NeutralAdj, NeutralTransform,
                             NeutralEnhancement, FALSE)
    /\ \E selected_samples \in Selections, api_key \in BOOLEAN :
          calc = [fn |-> "generate", api_key |-> api_key,
                  selected_samples |-> selected_samples,
                  generated_images |-> <<>>, handler |-> "none",
                  running |-> FALSE, img_idx |-> 0, sample |-> 0,
                  count |-> 0, total |-> 0, calls |-> <<>>]

\* lines 1111-1118 and 1209-1216: the button is clicked; the Regenerate
\* button is shown when there are generated images
StartGenerate(handler) ==
    /\ calc.fn = "generate"
    /\ ~calc.running
    /\ handler = "Regenerate" => calc.generated_images # <<>>
    /\ calc' = [calc EXCEPT
                  !.handler = handler, !.running = TRUE,
                  !.generated_images = <<>>,
                  !.total = Len(calc.selected_samples) * Len(edited_images),
                  !.count = 0, !.img_idx = 1, !.sample = 1, !.calls = <<>>]
    /\ UNCHANGED sessionVars

\* lines 1120-1148 and 1218-1246: one pass through the body of the inner
\* loop, with the answer of the remote generator
GenerateOne(response) ==
    /\ calc.fn = "generate"
    /\ calc.running
    /\ LET var_name == calc.selected_samples[calc.sample]
           generated == generate_image_variation(
                           CallArgs(edited_images[calc.img_idx], "fun",
                                    var_name, NoImage),
                           calc.api_key, response)
           key == ResultKey(calc.img_idx, var_name)
           last == calc.sample = Len(calc.selected_samples)
       IN calc' = [calc EXCEPT
                     !.calls = Append(@, [img_idx |-> calc.img_idx,
                                          var_name |-> var_name,
                                          generated |-> generated]),
                     !.generated_images =
                         IF generated # NoImage THEN Store(@, key, generated)
                         ELSE @,
                     !.count = @ + 1,
                     !.sample = IF last THEN 1 ELSE @ + 1,
                     !.img_idx = IF last THEN @ + 1 ELSE @,
                     !.running = ~(last /\ calc.img_idx = Len(edited_images))]
    /\ UNCHANGED sessionVars

NextGenerate ==
    \/ \E handler \in {"Generate", "Regenerate"} : StartGenerate(handler)
    \/ \E response \in {"image", "text", "raises"} : GenerateOne(response)

SpecGenerate == InitGenerate /\ [][NextGenerate]_vars

----------------------------------------------------------------------------
(* Custom background and model photo (lines 862-923).  The two uploader    *)
(* widgets keep their file from run to run; every run of the tab sets the  *)
(* session entries from them.  calc holds the widgets, the session         *)
(* entries, what the user did last to each entry, and the last call.        *)

\* lines 869-881 and 895-923: what a run that clicks nothing leaves in the
\* session; a file is 0 when the uploader is empty, and the checkbox is
\* drawn, and keeps its state, only while the model uploader holds a file
TabRun(c) ==
    [c EXCEPT
       !.custom_background =
           IF c.custom_bg_file # 0
           THEN convert_to_rgb(ImageOpen(c.custom_bg_file)) ELSE NoImage,
       !.model_photo =
           IF c.model_photo_file # 0
           THEN convert_to_rgb(ImageOpen(c.model_photo_file)) ELSE NoImage,
       !.clone_mode_checkbox =
           IF c.model_photo_file # 0 THEN c.clone_mode_checkbox ELSE FALSE,
       !.clone_mode =
           IF c.model_photo_file # 0 THEN c.clone_mode_checkbox ELSE FALSE]

InitBackground ==
    /\ \E files \in Batches :
          /\ uploaded_files = files
          /\ original_images = [i \in 1..Len(files) |->
                                  convert_to_rgb(ImageOpen(files[i]))]
          /\ edited_images = original_images
          /\ working_images = original_images
          /\ shown = original_images[1]
          /\ run = RunRecord("Upload", 1, NeutralAdj, NeutralTransform,
                             NeutralEnhancement, FALSE)
    /\ \E api_key \in BOOLEAN :
          calc = [fn |-> "background", api_key |-> api_key,
                  custom_bg_file |-> 0, custom_background |-> NoImage,
                  model_photo_file |-> 0, model_photo |-> NoImage,
                  clone_mode_checkbox |-> FALSE, clone_mode |-> FALSE,
                  background_event |-> "none", model_event |-> "none",
                  last |-> "none", call |-> NoCall]

\* the user puts a file into the background uploader, or takes it out
\* (file 0)
SetBackgroundFile(file) ==
    /\ calc.fn = "background"
    /\ file # calc.custom_bg_file
    /\ calc' = TabRun([calc EXCEPT
                         !.custom_bg_file = file,
                         !.background_event = IF file # 0 THEN "uploaded"
                                              ELSE "removed",
                         !.last = "background file"])
    /\ UNCHANGED sessionVars

\* lines 878-880: Clear Custom Background, shown while the uploader holds
\* a file; then the rerun
ClearCustomBackground ==
    /\ calc.fn = "background"
    /\ calc.custom_bg_file # 0
    /\ calc' = TabRun([TabRun(calc) EXCEPT
                         !.custom_background = NoImage,
                         !.background_event = "cleared",
                         !.last = "Clear Custom Background"])
    /\ UNCHANGED sessionVars

\* the user puts a file into the model photo uploader, or takes it out
SetModelPhotoFile(file) ==
    /\ calc.fn = "background"
    /\ file # calc.model_photo_file
    /\ calc' = TabRun([calc EXCEPT
                         !.model_photo_file = file,
                         !.model_event = IF file # 0 THEN "uploaded"
                                         ELSE "removed",
                         !.last = "model photo file"])
    /\ UNCHANGED sessionVars

\* lines 902-907: the Clone Mode checkbox, shown while the uploader holds
\* a file
ToggleCloneMode ==
    /\ calc.fn = "background"
    /\ calc.model_photo_file # 0
    /\ calc' = TabRun([calc EXCEPT !.clone_mode_checkbox = ~@,
                                   !.last = "Clone Mode"])
    /\ UNCHANGED sessionVars

\* lines 916-919: Clear Model Photo; then the rerun
ClearModelPhoto ==
    /\ calc.fn = "background"
    /\ calc.model_photo_file # 0
    /\ calc' = TabRun([TabRun(calc) EXCEPT
                         !.model_photo = NoImage, !.clone_mode = FALSE,
                         !.model_event = "cleared",
                         !.last = "Clear Model Photo"])
    /\ UNCHANGED sessionVars

\* lines 1107-1141: a generation call for the first photo, outside clone
\* mode
GenerateWithBackground(response) ==
    /\ calc.fn = "background"
    /\ ~calc.clone_mode
    /\ LET c == TabRun(calc)
       IN calc' = [c EXCEPT
                     !.last = "generate",
                     !.call = CallRecord(CallArgs(edited_images[1], "fun",
                                                  "Retro Fun",
                                                  c.custom_background),
                                         c.api_key, c.model_photo, response)]
    /\ UNCHANGED sessionVars

NextBackground ==
    \/ \E file \in {0, 2} : SetBackgroundFile(file)
    \/ ClearCustomBackground
    \/ \E file \in {0, 1} : SetModelPhotoFile(file)
    \/ ToggleCloneMode
    \/ ClearModelPhoto
    \/ \E response \in {"image", "text"} : GenerateWithBackground(response)

SpecBackground == InitBackground /\ [][NextBackground]_vars

----------------------------------------------------------------------------
(* The session from login to logout.  calc holds the credentials store,    *)
(* the clock and the session entries other than the three image lists; a   *)
(* step is a run of the script with the rerun its handler asks for.  An    *)
(* absent or None username is "", an absent or None login time is -1.      *)

NoUser == ""
NoTime == -1

\* simple_auth.py lines 25-30 and 398-399, app.py lines 60-85: the entries
\* of a session before anything is done in it
NewSession ==
    [authenticated |-> FALSE, username |-> NoUser, login_time |-> NoTime,
     show_terms |-> FALSE, pending_username |-> NoUser,
     selected_samples |-> <<>>, generated_images |-> <<>>,
     detected_ages |-> <<>>]

SessionKeys == DOMAIN NewSession

\* the part of calc that is the session
SessionOf(c) == [k \in SessionKeys |-> c[k]]

\* calc with its session entries replaced
WithSession(c, s) == [k \in DOMAIN c |-> IF k \in SessionKeys THEN s[k] ELSE c[k]]

\* simple_auth.py lines 142-197: None for an unknown user
get_account_info(credentials, now, username) ==
    IF username \notin DOMAIN credentials
    THEN [known |-> FALSE, has_expiry |-> FALSE, is_expired |-> FALSE]
    ELSE [known |-> TRUE,
          has_expiry |-> credentials[username].expiry # None,
          is_expired |-> HasExpired(credentials[username], now)]

\* simple_auth.py lines 462-466
logout(c) ==
    [c EXCEPT !.authenticated = FALSE, !.username = NoUser,
              !.login_time = NoTime]

\* simple_auth.py lines 468-472 with app.py lines 29-30: the run goes on
\* past the gate
require_auth_Open(c) == TRUE

require_auth(c) == c.authenticated

\* simple_auth.py lines 482-495: the expiry check of the sidebar; after
\* the logout the rerun shows the login form
show_user_info(c) ==
    LET account_info == get_account_info(c.credentials, c.now, c.username)
    IN IF account_info.known /\ account_info.has_expiry
          /\ account_info.is_expired
       THEN [logout(c) EXCEPT !.main = require_auth(logout(c)),
                              !.sidebar = require_auth(logout(c))]
       ELSE c

\* app.py lines 26-30, 60-1534 and 1536-1539: the script from the gate on,
\* in a session c; stopped when the run ends between the gate and the
\* sidebar (st.stop() at line 701, or an exception nothing catches)
AppRun(c, stopped) ==
    IF ~require_auth(c) THEN [c EXCEPT !.main = FALSE, !.sidebar = FALSE]
    ELSE IF stopped THEN [c EXCEPT !.main = TRUE, !.sidebar = FALSE]
    ELSE show_user_info([c EXCEPT !.main = TRUE, !.sidebar = TRUE])

\* app.py lines 675-701: a run in this state ends before the sidebar: the
\* reload of line 682 raises again, or no working image has the index
StopsEarly ==
    /\ uploaded_files # <<>>
    /\ IF Len(uploaded_files) # Len(original_images)
       THEN OpenRaises(uploaded_files) \/ CopyRaises(uploaded_files)
       ELSE Len(working_images) = 0

\* app.py lines 630-650 and 1579-1599: the handler of Start Over and of
\* Reset Everything on the session entries
start_over_ClearAll(c) ==
    IF c.authenticated THEN WithSession(c, NewSession) ELSE c

start_over(c) ==
    IF c.authenticated
    THEN WithSession(c, [NewSession EXCEPT
                            !.authenticated = TRUE,
                            !.username = c.username,
                            !.login_time = c.login_time])
    ELSE c

\* the accounts: the two of the default store and a trial account that
\* runs out after hour 1
session_creds ==
    [u \in {"admin", "demo", "trial"} |->
        IF u = "trial"
        THEN [password |-> hash_password("demo123"), expiry |-> isoformat(1)]
        ELSE default_creds[u]]

SessionFiles == {<<>>, <<1>>, <<4>>, <<1, 3>>}

InitSession ==
    /\ original_images = <<>>
    /\ edited_images = <<>>
    /\ working_images = <<>>
    /\ uploaded_files = <<>>
    /\ shown = NoImage
    /\ run = RunRecord("Start", 0, NeutralAdj, NeutralTransform,
                       NeutralEnhancement, FALSE)
    /\ calc = [fn |-> "session", credentials |-> session_creds, now |-> 0,
               authenticated |-> FALSE, username |-> NoUser,
               login_time |-> NoTime, show_terms |-> FALSE,
               pending_username |-> NoUser, selected_samples |-> <<>>,
               generated_images |-> <<>>, detected_ages |-> <<>>,
               verified |-> {}, last |-> "none", main |-> FALSE,
               sidebar |-> FALSE]

\* datetime.now() moves on
SessionTick ==
    /\ calc.fn = "session"
    /\ calc.now < MaxTime
    /\ calc' = [calc EXCEPT !.now = @ + 1]
    /\ UNCHANGED sessionVars

\* app.py lines 1400-1446: an administrator, in a session of their own,
\* extends an account that has an expiry and has not run out
ExtendByAdmin(username, hours) ==
    /\ calc.fn = "session"
    /\ LET info == get_account_info(calc.credentials, calc.now, username)
       IN info.known /\ info.has_expiry /\ ~info.is_expired
    /\ fromisoformat(calc.credentials[username].expiry) < MaxTime
    /\ calc' = [calc EXCEPT
                  !.credentials = extend_account(@, username, hours).credentials]
    /\ UNCHANGED sessionVars

\* simple_auth.py lines 391-402: Sign In with both fields filled in
SignIn(username, password) ==
    /\ calc.fn = "session"
    /\ ~calc.main
    /\ LET r == verify_credentials(calc.credentials, calc.now, username, password)
       IN calc' = AppRun([calc EXCEPT
                            !.show_terms = IF r.success THEN TRUE ELSE @,
                            !.pending_username = IF r.success THEN username ELSE @,
                            !.verified = IF r.success THEN @ \cup {username} ELSE @,
                            !.last = "Sign In"],
                         StopsEarly)
    /\ UNCHANGED sessionVars

\* simple_auth.py lines 453-460: I Accept in the Terms dialog
Accept ==
    /\ calc.fn = "session"
    /\ ~calc.main
    /\ calc.show_terms
    /\ calc' = AppRun([calc EXCEPT
                         !.authenticated = TRUE,
                         !.username = calc.pending_username,
                         !.login_time = calc.now,
                         !.show_terms = FALSE,
                         !.pending_username = NoUser,
                         !.last = "I Accept"],
                      StopsEarly)
    /\ UNCHANGED sessionVars

\* simple_auth.py lines 447-450: Decline in the Terms dialog
Decline ==
    /\ calc.fn = "session"
    /\ ~calc.main
    /\ calc.show_terms
    /\ calc' = AppRun([calc EXCEPT
                         !.show_terms = FALSE,
                         !.pending_username = NoUser,
                         !.last = "Decline"],
                      StopsEarly)
    /\ UNCHANGED sessionVars

\* simple_auth.py lines 520-522: Logout in the sidebar, below the expiry
\* check
Logout ==
    /\ calc.fn = "session"
    /\ calc.sidebar
    /\ calc' = AppRun([logout(show_user_info(calc)) EXCEPT !.last = "Logout"],
                      StopsEarly)
    /\ UNCHANGED sessionVars

\* app.py lines 667-703: the user changes the uploaded files
UploadSession(files) ==
    /\ calc.fn = "session"
    /\ calc.main
    /\ UploadRun(files, 1, NeutralAdj, FALSE)
    /\ calc' = AppRun([calc EXCEPT !.last = "Upload"], run'.raised)

\* a run that no handler takes part in: the page is loaded again, or a
\* widget that only redraws is touched
Rerun ==
    /\ calc.fn = "session"
    /\ calc.main
    /\ (uploaded_files # <<>> /\ Len(uploaded_files) # Len(original_images))
          => OpenRaises(uploaded_files)
    /\ calc' = AppRun([calc EXCEPT !.last = "rerun"], StopsEarly)
    /\ UNCHANGED sessionVars

\* app.py lines 934-951: Detect Age from Photos, every photo answered
DetectAges(age) ==
    /\ calc.fn = "session"
    /\ calc.sidebar
    /\ edited_images # <<>>
    /\ calc' = AppRun([calc EXCEPT
                         !.detected_ages = [i \in DOMAIN edited_images |-> age],
                         !.last = "Detect Age"],
                      StopsEarly)
    /\ UNCHANGED sessionVars

\* app.py lines 1049-1065: a variation is ticked
SelectSample(var_name) ==
    /\ calc.fn = "session"
    /\ calc.sidebar
    /\ edited_images # <<>>
    /\ \A i \in DOMAIN calc.selected_samples : calc.selected_samples[i] # var_name
    /\ calc' = AppRun([calc EXCEPT
                         !.selected_samples = Append(@, var_name),
                         !.last = "Select"],
                      StopsEarly)
    /\ UNCHANGED sessionVars

\* app.py lines 1107-1153: Generate Selected Samples, every call answered
\* with an image
GenerateSelected ==
    /\ calc.fn = "session"
    /\ calc.sidebar
    /\ edited_images # <<>>
    /\ calc.selected_samples # <<>>
    /\ calc' = AppRun([calc EXCEPT
                         !.generated_images =
                             [k \in {ResultKey(i, calc.selected_samples[j]) :
                                       i \in DOMAIN edited_images,
                                       j \in DOMAIN calc.selected_samples} |->
                                 generate_image_variation(
                                    CallArgs(edited_images[k[2]], "fun", k[3],
                                             NoImage),
                                    TRUE, "image")],
                         !.last = "Generate"],
                      StopsEarly)
    /\ UNCHANGED sessionVars

\* the three lists and the uploaders after the handler of Start Over or
\* Reset Everything in a session c: the lists are made anew by lines
\* 60-65, the uploaders come back empty under their new key
Cleared(c, op) ==
    IF c.authenticated
    THEN /\ original_images' = <<>>
         /\ edited_images' = <<>>
         /\ working_images' = <<>>
         /\ uploaded_files' = <<>>
         /\ shown' = NoImage
         /\ run' = RunRecord(op, 0, NeutralAdj, NeutralTransform,
                             NeutralEnhancement, FALSE)
    ELSE UNCHANGED sessionVars

\* app.py lines 628-652: Start Over, in the header
StartOver ==
    /\ calc.fn = "session"
    /\ calc.main
    /\ Cleared(calc, "Start Over")
    /\ calc' = AppRun([start_over(calc) EXCEPT !.last = "Start Over"],
                      IF calc.authenticated THEN FALSE ELSE StopsEarly)

\* app.py lines 1577-1601: Reset Everything, in the sidebar below the
\* expiry check, which logs out first when the account has run out
ResetEverything ==
    /\ calc.fn = "session"
    /\ calc.sidebar
    /\ LET c == show_user_info(calc)
       IN /\ Cleared(c, "Reset Everything")
          /\ calc' = AppRun([start_over(c) EXCEPT !.last = "Reset Everything"],
                            IF c.authenticated THEN FALSE ELSE StopsEarly)

NextSession ==
    \/ SessionTick
    \/ \E username \in {"trial"}, hours \in {2} : ExtendByAdmin(username, hours)
    \/ \E username \in {"admin", "trial"}, password \in Passwords :
          SignIn(username, password)
    \/ Accept
    \/ Decline
    \/ Logout
    \/ \E files \in SessionFiles : UploadSession(files)
    \/ Rerun
    \/ \E age \in {30} : DetectAges(age)
    \/ \E var_name \in {"Retro Fun"} : SelectSample(var_name)
    \/ GenerateSelected
    \/ StartOver
    \/ ResetEverything

SpecSession == InitSession /\ [][NextSession]_vars

----------------------------------------------------------------------------
(* Properties of the edit session *)

CommitOps == {"SaveAdjustments", "ApplyTransform", "ApplyEnhancement"}
PreviewOps == {"LivePreview", "PreviewTransform", "PreviewEnhancement"}
EditOps == CommitOps \cup PreviewOps \cup {"ResetToOriginal", "ApplyToAll"}

\* the chain a run of the given button applies to an image on a build that
\* accepts it
ChainOf(r, image) ==
    CASE r.op \in {"LivePreview", "SaveAdjustments", "ApplyToAll"} ->
            Adjust(image, r.adj, FALSE)
      [] r.op \in {"PreviewTransform", "ApplyTransform"} ->
            TransformChain(image, r.transform, FALSE)
      [] r.op \in {"PreviewEnhancement", "ApplyEnhancement"} ->
            EnhancementChain(image, r.enhancement, FALSE)
      [] OTHER -> image

\* C1: once a batch is loaded, no edit step (save, reset, transform,
\* enhancement, apply-to-all, or any preview) changes an entry of
\* original_images, and working_images[i] changes only in a step that is a
\* commit (Save Adjustments, Apply Transform, Apply Enhancement,
\* Apply-to-All) or a Reset to Original.
C1_OriginalsFixed ==
    [][run'.op \in EditOps =>
          /\ original_images' = original_images
          /\ \A i \in DOMAIN working_images :
                working_images'[i] # working_images[i] =>
                    run'.op \in CommitOps \cup {"ApplyToAll", "ResetToOriginal"}]_vars

\* a committed edit is in place next to an untouched original
C1_Witness ==
    /\ run.op \in CommitOps
    /\ ~run.raised
    /\ working_images[run.idx] # original_images[run.idx]

\* C2 (as claimed): after apply-to-all with parameters P, every index k of
\* the batch, the selected one included, holds P applied to original k.
C2_AllFromOriginals ==
    (run.op = "ApplyToAll" /\ ~run.raised) =>
        \A k \in DOMAIN working_images :
            working_images[k] = Adjust(original_images[k], run.adj, FALSE)

\* C3: a preview step (live slider preview, Preview Transform, Preview
\* Enhancement) leaves original_images, working_images and edited_images
\* as they were, and what it shows is its chain applied to the committed
\* buffer working_images[i] with the run's parameters.
C3_PreviewFromCommitted ==
    [][run'.op \in PreviewOps =>
          /\ UNCHANGED <<original_images, working_images, edited_images>>
          /\ ~run'.raised =>
                shown' = ChainOf(run', working_images[run'.idx])]_vars

\* a preview of an already edited photo, shown after an earlier preview
C3_Witness ==
    /\ run.op = "PreviewTransform"
    /\ ~run.raised
    /\ shown # working_images[run.idx]
    /\ working_images[run.idx] # original_images[run.idx]

\* C4: a commit at index i (Save Adjustments, Apply Transform, Apply
\* Enhancement) replaces working[i] by its chain applied to the previous
\* working[i], and leaves original[i] and the original and working buffers
\* of every other index unchanged.
C4_CommitFrame ==
    [][(run'.op \in CommitOps /\ ~run'.raised) =>
          /\ working_images'[run'.idx] = ChainOf(run', working_images[run'.idx])
          /\ original_images' = original_images
          /\ \A j \in DOMAIN working_images :
                j # run'.idx => working_images'[j] = working_images[j]]_vars

\* a second commit on a photo of a batch of two
C4_Witness ==
    /\ run.op \in CommitOps
    /\ ~run.raised
    /\ Len(working_images) = 2
    /\ Len(working_images[run.idx].ops) = 2

\* C5: Reset to Original at index i makes working[i] and edited[i] equal to
\* original[i], whatever was committed before, and changes no buffer of
\* another index.
C5_ResetRestores ==
    [][(run'.op = "ResetToOriginal" /\ ~run'.raised) =>
          /\ working_images'[run'.idx] = original_images[run'.idx]
          /\ edited_images'[run'.idx] = original_images[run'.idx]
          /\ original_images' = original_images
          /\ \A j \in DOMAIN working_images :
                j # run'.idx => /\ working_images'[j] = working_images[j]
                                /\ edited_images'[j] = edited_images[j]]_vars

\* a reset of one photo while the other photo keeps its edit
C5_Witness ==
    /\ run.op = "ResetToOriginal"
    /\ ~run.raised
    /\ \E j \in DOMAIN working_images :
          j # run.idx /\ working_images[j] # original_images[j]

\* C6: apply-to-all writes into photo k only a buffer computed from photo
\* k's own buffer and the parameters: it stays the image of the same file,
\* and where it changed it is the adjustment of k's previous buffer.
C6_NoCrossPhoto ==
    [][run'.op = "ApplyToAll" =>
          \A k \in DOMAIN working_images :
             /\ working_images'[k].src = original_images[k].src
             /\ working_images'[k] # working_images[k] =>
                   working_images'[k] = Adjust(working_images[k], run'.adj, FALSE)]_vars

\* apply-to-all changed a photo while the selected photo holds another edit
C6_Witness ==
    /\ run.op = "ApplyToAll"
    /\ ~run.raised
    /\ \E k \in DOMAIN working_images :
          /\ k # run.idx
          /\ working_images[k] # original_images[k]
          /\ working_images[run.idx] # original_images[run.idx]

NeutralRun(r) ==
    /\ r.adj = NeutralAdj
    /\ r.transform = NeutralTransform
    /\ r.enhancement = NeutralEnhancement

\* C7: with every parameter neutral, a preview or a commit returns its
\* input: the image shown is the working buffer and no buffer changes.
C7_NeutralIdentity ==
    [][(run'.op \in CommitOps \cup PreviewOps /\ NeutralRun(run') /\ ~run'.raised) =>
          /\ shown' = working_images[run'.idx]
          /\ UNCHANGED <<original_images, working_images, edited_images>>]_vars

\* a neutral commit on a photo that already carries an edit
C7_Witness ==
    /\ run.op \in CommitOps
    /\ NeutralRun(run)
    /\ ~run.raised
    /\ shown = working_images[run.idx]
    /\ working_images[run.idx] # original_images[run.idx]

\* C9 (as claimed): a crop whose rectangle has zero width or zero height
\* is reported as an error, so no zero-area buffer is ever committed as a
\* working image.
C9_NoEmptyWorkingImage ==
    \A i \in DOMAIN working_images : ~ZeroArea(working_images[i])

----------------------------------------------------------------------------
(* Properties of crop_image and resize_image *)

\* C8: for every width and height >= 1 and every ratio (a, b) with
\* a, b >= 1, crop_image returns a centred rectangle inside the input, no
\* larger than the input; it crops the width when W/H > a/b and the height
\* otherwise, and the cropped side is within one pixel of the exact value
\* (H*a/b, respectively W*b/a).
C8_CropInsideAndRatio ==
    (calc.fn = "crop_image" /\ calc.done) =>
        LET W == calc.image.w
            H == calc.image.h
            a == calc.ratio[1]
            b == calc.ratio[2]
            r == calc.result
            box == r.ops[1][2]
        IN /\ r # Raised
           /\ r.ops[1][1] = "crop"
           /\ 0 <= box[1] /\ box[1] <= box[3] /\ box[3] <= W
           /\ 0 <= box[2] /\ box[2] <= box[4] /\ box[4] <= H
           /\ r.w = box[3] - box[1] /\ r.w <= W
           /\ r.h = box[4] - box[2] /\ r.h <= H
           /\ (W - box[3]) - box[1] \in {0, 1}
           /\ (H - box[4]) - box[2] \in {0, 1}
           /\ IF W * b > a * H
              THEN r.h = H /\ r.w * b <= H * a /\ H * a <= (r.w + 1) * b
              ELSE r.w = W /\ r.h * a <= W * b /\ W * b <= (r.h + 1) * a

\* a width crop with a margin cut off on both sides
C8_Witness ==
    /\ calc.fn = "crop_image"
    /\ calc.done
    /\ calc.image.w * calc.ratio[2] > calc.ratio[1] * calc.image.h
    /\ calc.result.ops[1][2][1] > 0
    /\ calc.result.w < calc.image.w
    /\ calc.result.w > 0

\* C10 (as claimed): 50 percent followed by 200 percent gives back exactly
\* the original width and height.
C10_RoundTripExact ==
    (calc.fn = "resize_image" /\ calc.percents = <<50, 200>>) =>
        /\ calc.result.w = calc.image.w
        /\ calc.result.h = calc.image.h

\* C10 (amended): 100 percent returns the input unchanged; 50 percent
\* followed by 200 percent gives width 2*floor(W/2) and height
\* 2*floor(H/2), the original size exactly when both are even; when the
\* width or the height is 1 the 50 percent call raises.
C10_RoundTripEven ==
    calc.fn = "resize_image" =>
        /\ calc.percents = <<100>> => calc.result = calc.image
        /\ calc.percents = <<50>> =>
              (calc.result = Raised <=> (calc.image.w = 1 \/ calc.image.h = 1))
        /\ calc.percents = <<50, 200>> =>
              /\ calc.result.w = 2 * (calc.image.w \div 2)
              /\ calc.result.h = 2 * (calc.image.h \div 2)
              /\ (calc.result.w = calc.image.w /\ calc.result.h = calc.image.h)
                    <=> (calc.image.w % 2 = 0 /\ calc.image.h % 2 = 0)

\* a round trip of an odd width: one pixel is lost
C10_Witness ==
    /\ calc.fn = "resize_image"
    /\ calc.percents = <<50, 200>>
    /\ calc.image.w % 2 = 1
    /\ calc.result.w = calc.image.w - 1

----------------------------------------------------------------------------
(* Upload failures and consistency of the three lists *)

\* a step that is the run after the user changed the uploaded files, and in
\* which the number of files calls for a reload (line 680)
ReloadStep ==
    /\ uploaded_files' # uploaded_files
    /\ uploaded_files' # <<>>
    /\ Len(uploaded_files') # Len(original_images)

\* C11 (as claimed): when a batch is loaded, every file of it that is an
\* image gets its slot in the three lists, whatever the other files of the
\* batch are; a file that cannot be decoded does not abort the load.
C11_GoodFilesLoaded ==
    [][ReloadStep =>
          \A i \in DOMAIN uploaded_files' :
             FileKind(uploaded_files'[i]) = "image" =>
                \E k \in DOMAIN original_images' :
                   /\ original_images'[k].src = uploaded_files'[i]
                   /\ k \in DOMAIN working_images'
                   /\ k \in DOMAIN edited_images'
                   /\ working_images'[k].src = uploaded_files'[i]
                   /\ edited_images'[k].src = uploaded_files'[i]]_vars

\* C12 (as claimed): the three lists have the same length in every
\* reachable state.
C12_SameLength ==
    /\ Len(original_images) = Len(working_images)
    /\ Len(original_images) = Len(edited_images)

\* the handlers that commit buffers
CommitCalls ==
    {"SaveAdjustments", "ApplyTransform", "ApplyEnhancement", "ApplyToAll"}

\* C13 (as claimed): a commit or an apply-to-all in which an operation
\* raises leaves every working and every edited buffer as it was.
C13_AllOrNothing ==
    [][(run'.op \in CommitCalls /\ run'.raised) =>
          UNCHANGED <<working_images, edited_images>>]_vars

----------------------------------------------------------------------------
(* Properties of generate_image_variation *)

Range(seq) == {seq[i] : i \in DOMAIN seq}

\* the position of x in a sequence without repetitions
Position(seq, x) == CHOOSE i \in DOMAIN seq : seq[i] = x

ClauseOrder == <<"body", "framing", "age", "enhancements", "background">>

ItemOrder ==
    <<{"subtle hair enhancement"}, {"restore natural hair color"},
      {"smooth flawless skin"}, {tone_map[x] : x \in DOMAIN tone_map},
      {"bright white teeth"}, {"bright clear eyes"},
      {"professional studio lighting"}, {"enhanced sharpness and clarity"}>>

ItemRank(item) == CHOOSE i \in DOMAIN ItemOrder : item \in ItemOrder[i]

Ordered(text) ==
    \A i, j \in DOMAIN text :
       (/\ i < j
        /\ text[i].kind \in Range(ClauseOrder)
        /\ text[j].kind \in Range(ClauseOrder))
          => Position(ClauseOrder, text[i].kind) < Position(ClauseOrder, text[j].kind)

ItemsOrdered(text) ==
    \A c \in DOMAIN text :
       text[c].kind = "enhancements" =>
          \A i, j \in DOMAIN text[c].items :
             i < j => ItemRank(text[c].items[i]) < ItemRank(text[c].items[j])

\* C14: the instruction text of every call has its clauses in the order
\* style body, framing, age, enhancements, background, each at most once
\* (so at most one age directive); it starts with the style body; it has
\* a framing clause exactly for the professional and passport categories;
\* and the enhancement items are in the order hair, grey-hair removal,
\* skin, skin tone, teeth, eyes, lighting, sharpness.
C14_ClauseOrder ==
    (calc.fn = "generate_image_variation" /\ calc.call.built) =>
       /\ calc.call.prompt[1].kind = "body"
       /\ Ordered(calc.call.prompt)
       /\ ItemsOrdered(calc.call.prompt)
       /\ (\E i \in DOMAIN calc.call.prompt : calc.call.prompt[i].kind = "framing")
             <=> calc.args.style_name \in {"professional", "passport"}

\* a call that had every optional clause to place
C14_Witness ==
    /\ calc.fn = "generate_image_variation"
    /\ calc.call.built
    /\ {calc.call.prompt[i].kind : i \in DOMAIN calc.call.prompt}
          = Range(ClauseOrder) \cup {"model photo", "closing"}
    /\ \E c \in DOMAIN calc.call.prompt :
          /\ calc.call.prompt[c].kind = "enhancements"
          /\ Len(calc.call.prompt[c].items) = Len(ItemOrder)

\* both of the last two calls built a request
TwoRequests ==
    /\ calc.fn = "generate_image_variation"
    /\ calc.call.built
    /\ calc.previous.built

\* C15 (as claimed): two calls with the same arguments send the same
\* instruction text and the same payload parts, whatever the session holds.
C15_SameArguments ==
    TwoRequests =>
       /\ calc.call.prompt = calc.previous.prompt
       /\ calc.call.parts = calc.previous.parts

\* C15 (amended): two calls with the same arguments that find the same
\* model photo in the session send the same instruction text and the same
\* payload parts.
C15_SameArgumentsAndModelPhoto ==
    (TwoRequests /\ calc.call.model_photo = calc.previous.model_photo) =>
       /\ calc.call.prompt = calc.previous.prompt
       /\ calc.call.parts = calc.previous.parts

\* two calls that found the same model photo and that the generator
\* answered differently
C15_Witness ==
    /\ TwoRequests
    /\ calc.call.model_photo # NoImage
    /\ calc.call.model_photo = calc.previous.model_photo
    /\ calc.call.response # calc.previous.response
    /\ calc.call.parts = calc.previous.parts

\* C16 (as claimed): a call that does not get an image from the generator,
\* the call without an API key included, returns its input image.
C16_FallbackToInput ==
    (/\ calc.fn = "generate_image_variation"
     /\ calc.call # NoCall
     /\ calc.call.response # "image") =>
        calc.call.result = calc.args.image

----------------------------------------------------------------------------
(* Properties of create_zip_file *)

\* C17 (as claimed): unpacking the archive yields exactly one .jpg file
\* per input name, named by the input name with spaces and slashes replaced
\* by underscores and holding that name's image; no two input names share
\* an entry.
C17_OneFilePerName ==
    (calc.fn = "create_zip_file" /\ calc.done) =>
       /\ Cardinality(Unpacked(calc.archive)) = Len(calc.images_dict)
       /\ \A i \in DOMAIN calc.images_dict :
             \E file \in Unpacked(calc.archive) :
                /\ file.name = replace(replace(calc.images_dict[i].name,
                                               " ", "_"), "/", "_")
                                  \o <<".jpg">>
                /\ file.data = SaveJpeg(calc.images_dict[i].image)

----------------------------------------------------------------------------
(* Properties of SimpleAuthenticator *)

\* the last call was verify_credentials for a user of the store
VerifiedKnown ==
    /\ calc.fn = "SimpleAuthenticator"
    /\ calc.call.op = "verify_credentials"
    /\ calc.call.username \in DOMAIN calc.credentials

RightPassword ==
    calc.credentials[calc.call.username].password
       = hash_password(calc.call.password)

\* C18: for a record with expiry T, verify_credentials rejects when the
\* time of the call is after T, also with the right password, and at or
\* before T it accepts exactly the right password; for a record without
\* expiry it accepts exactly the right password at any time.
C18_ExpiryDecides ==
    VerifiedKnown =>
       LET expiry == calc.credentials[calc.call.username].expiry
       IN IF expiry # None /\ calc.call.at > fromisoformat(expiry)
          THEN ~calc.call.success
          ELSE calc.call.success <=> RightPassword

\* a login with the right password at the very hour of the expiry
C18_Witness ==
    /\ VerifiedKnown
    /\ calc.credentials[calc.call.username].expiry # None
    /\ calc.call.at = fromisoformat(calc.credentials[calc.call.username].expiry)
    /\ RightPassword
    /\ calc.call.success

\* C19: a failed verify_credentials returns either the expiry message, and
\* then the account exists and its expiry has passed, or the one generic
\* message, the same for an unknown username and for a wrong password.
C19_GenericFailure ==
    (/\ calc.fn = "SimpleAuthenticator"
     /\ calc.call.op = "verify_credentials"
     /\ ~calc.call.success) =>
        IF calc.call.message = ExpiredFailure
        THEN /\ calc.call.username \in DOMAIN calc.credentials
             /\ calc.credentials[calc.call.username].expiry # None
             /\ calc.call.at
                   > fromisoformat(calc.credentials[calc.call.username].expiry)
        ELSE calc.call.message = GenericFailure

\* a failed login with an unknown username
C19_Witness ==
    /\ calc.fn = "SimpleAuthenticator"
    /\ calc.call.op = "verify_credentials"
    /\ calc.call.username \notin DOMAIN calc.credentials
    /\ ~calc.call.success
    /\ calc.call.message = GenericFailure

\* C20: a step changes the record of an existing user only as a successful
\* change_password for that user whose old password verified (the expiry
\* stays), or as a successful extend_account for that user (the password
\* stays); no record is removed; and verify_credentials and every failed
\* call leave the store as it was.
C20_StoreFrame ==
    [][calc.fn = "SimpleAuthenticator" =>
          /\ DOMAIN calc.credentials \subseteq DOMAIN calc'.credentials
          /\ \A u \in DOMAIN calc.credentials :
                calc'.credentials[u] # calc.credentials[u] =>
                   /\ calc'.call.username = u
                   /\ calc'.call.success
                   /\ \/ /\ calc'.call.op = "change_password"
                         /\ verify_credentials(calc.credentials, calc.now, u,
                                               calc'.call.password).success
                         /\ calc'.credentials[u].expiry = calc.credentials[u].expiry
                      \/ /\ calc'.call.op = "extend_account"
                         /\ calc'.credentials[u].password
                               = calc.credentials[u].password
          /\ (calc'.call.op = "verify_credentials" \/ ~calc'.call.success)
                => calc'.credentials = calc.credentials]_vars

\* a successful change_password that gave admin a new password
C20_Witness ==
    /\ calc.fn = "SimpleAuthenticator"
    /\ calc.call.op = "change_password"
    /\ calc.call.username = "admin"
    /\ calc.call.success
    /\ calc.credentials["admin"].password # default_creds["admin"].password

\* C21 (as claimed): a successful add_trial_user leaves an account whose
\* expiry is the time of the call plus trial_hours, and returns that expiry,
\* not None: no trial account is permanent.
C21_TrialExpires ==
    (/\ calc.fn = "SimpleAuthenticator"
     /\ calc.call.op = "add_trial_user"
     /\ calc.call.success) =>
        /\ calc.call.expiry_time # None
        /\ calc.credentials[calc.call.username].expiry
              = isoformat(calc.call.at + calc.call.hours)
        /\ calc.call.expiry_time = calc.credentials[calc.call.username].expiry

\* C25: a call of extend_account for an account with an expiry succeeds
\* and replaces the expiry by the old expiry plus additional_hours, leaving
\* the rest of the store alone; for an unknown user or a permanent account
\* it fails and leaves the store as it was.
C25_ExtendFromOldExpiry ==
    [][(/\ calc.fn = "SimpleAuthenticator"
        /\ calc'.call.op = "extend_account"
        /\ calc'.now = calc.now) =>
          LET u == calc'.call.username
          IN IF u \in DOMAIN calc.credentials /\ calc.credentials[u].expiry # None
             THEN /\ calc'.call.success
                  /\ calc'.credentials =
                        [calc.credentials EXCEPT ![u].expiry =
                            isoformat(fromisoformat(calc.credentials[u].expiry)
                                         + calc'.call.hours)]
             ELSE /\ ~calc'.call.success
                  /\ calc'.credentials = calc.credentials]_vars

\* an account extended after its expiry had passed, to a time that is
\* not the time of the call plus the hours
C25_Witness ==
    /\ calc.fn = "SimpleAuthenticator"
    /\ calc.call.op = "extend_account"
    /\ calc.call.success
    /\ fromisoformat(calc.credentials[calc.call.username].expiry)
          - calc.call.hours < calc.call.at

----------------------------------------------------------------------------
(* Properties of apply_basic_adjustments *)

\* the four sub-operations in the claimed order, with their factors
SubOperations(adj) ==
    <<<<"Brightness", adj.brightness>>, <<"Contrast", adj.contrast>>,
      <<"Color", adj.saturation>>, <<"Sharpness", adj.sharpness>>>>

NotNeutral(op) == op[2] # Neutral

\* C23: a call of apply_basic_adjustments that returns has applied to its
\* input exactly the sub-operations whose factor is not 1.0, each once, in
\* the order brightness, contrast, saturation, sharpness; a neutral factor
\* leaves no trace in the result.
C23_OnlyNonNeutralInOrder ==
    (calc.fn = "apply_basic_adjustments" /\ calc.done /\ calc.result # Raised) =>
       calc.result = [calc.image EXCEPT
                         !.ops = @ \o SelectSeq(SubOperations(calc.adj), NotNeutral)]

\* a call with a neutral factor between two that are not
C23_Witness ==
    /\ calc.fn = "apply_basic_adjustments"
    /\ calc.done
    /\ calc.result # Raised
    /\ calc.adj.brightness # Neutral
    /\ calc.adj.contrast = Neutral
    /\ calc.adj.saturation # Neutral
    /\ Len(calc.result.ops) = Len(calc.image.ops) + 2

----------------------------------------------------------------------------
(* Properties of the generation loops *)

\* the n-th pair of the photo-major order over the photos and the
\* selected variations
PhotoMajor(n) ==
    LET per == Len(calc.selected_samples)
    IN [img_idx |-> ((n - 1) \div per) + 1,
        var_name |-> calc.selected_samples[((n - 1) % per) + 1]]

----------------------------------------------------------------------------
(* Properties of the custom background and the model photo *)

\* the payload of the last call holds the image
Sent(image) ==
    \E i \in DOMAIN calc.call.parts : calc.call.parts[i].image = image

\* C30 (as claimed): from a click on Clear Custom Background until a new
\* background file is uploaded the session has no custom background, and
\* from a click on Clear Model Photo until a new model photo is uploaded
\* it has no model photo and clone mode is off; a generation call made in
\* such a run sends neither image.
C30_ClearedStaysCleared ==
    calc.fn = "background" =>
       /\ calc.background_event = "cleared" =>
             /\ calc.custom_background = NoImage
             /\ (calc.last = "generate" /\ calc.call.built) =>
                   ~Sent(convert_to_rgb(ImageOpen(calc.custom_bg_file)))
       /\ calc.model_event = "cleared" =>
             /\ calc.model_photo = NoImage
             /\ ~calc.clone_mode
             /\ calc.call.built => calc.call.model_photo = NoImage

----------------------------------------------------------------------------
(* Properties of login, expiry and the two reset buttons *)

\* the account the session is logged in as has run out
Expired(c) ==
    /\ c.username \in DOMAIN c.credentials
    /\ HasExpired(c.credentials[c.username], c.now)

\* the step is a run of the script in this session: the clock and the
\* store stand still
RunStep ==
    /\ calc.fn = "session"
    /\ calc'.now = calc.now
    /\ calc'.credentials = calc.credentials

\* C26: a session that was not authenticated is authenticated only after
\* I Accept in the Terms dialog, as the pending user, whose credentials
\* were verified in this session; Decline leaves the session
\* unauthenticated and without a pending user; and whenever the main
\* application was run, the session was authenticated.
C26_LoginOnlyByAccept ==
    /\ [](calc.fn = "session" /\ calc.main => calc.authenticated)
    /\ [][/\ (RunStep /\ ~calc.authenticated /\ calc'.authenticated) =>
                /\ calc.show_terms
                /\ calc'.last = "I Accept"
                /\ calc'.username = calc.pending_username
                /\ calc.pending_username \in calc.verified
          /\ (RunStep /\ calc.show_terms /\ calc'.last = "Decline") =>
                /\ ~calc'.authenticated
                /\ ~calc'.show_terms
                /\ calc'.pending_username = NoUser]_vars

\* a login was completed and the main application ran
C26_Witness ==
    /\ calc.fn = "session"
    /\ calc.last = "I Accept"
    /\ calc.authenticated
    /\ calc.main
    /\ calc.username = "trial"

\* C27 (as claimed): a run of the script in an authenticated session
\* whose account has run out ends logged out, with username and login
\* time cleared; and no login of an account that has run out is verified
\* or completed.
C27_ExpiryLogsOut ==
    [][/\ (RunStep /\ calc.authenticated /\ Expired(calc)) =>
             /\ ~calc'.authenticated
             /\ calc'.username = NoUser
             /\ calc'.login_time = NoTime
       /\ (RunStep /\ calc'.last = "Sign In" /\ calc'.show_terms
             /\ calc'.pending_username # calc.pending_username) =>
             ~HasExpired(calc.credentials[calc'.pending_username], calc.now)
       /\ (RunStep /\ ~calc.authenticated /\ calc'.authenticated) =>
             ~Expired(calc')]_vars

\* C28: Start Over and Reset Everything, in an authenticated session
\* whose account has not run out, leave authenticated, username and
\* login_time as they were and every other session entry as in a new
\* session, with the three lists, the generated images, the detected
\* ages and the selected variations empty; on a session that is not
\* authenticated the handler changes nothing.
C28_ResetKeepsLogin ==
    /\ [](calc.fn = "session" /\ ~calc.authenticated => start_over(calc) = calc)
    /\ [][(/\ RunStep
           /\ calc'.last \in {"Start Over", "Reset Everything"}
           /\ calc.authenticated
           /\ ~Expired(calc)) =>
             /\ SessionOf(calc') =
                   [NewSession EXCEPT !.authenticated = calc.authenticated,
                                      !.username = calc.username,
                                      !.login_time = calc.login_time]
             /\ calc'.authenticated
             /\ original_images' = <<>>
             /\ working_images' = <<>>
             /\ edited_images' = <<>>
             /\ uploaded_files' = <<>>
             /\ calc'.generated_images = <<>>
             /\ calc'.detected_ages = <<>>
             /\ calc'.selected_samples = <<>>]_vars

\* Start Over has been clicked in a session logged in as the trial user
C28_Witness ==
    /\ calc.fn = "session"
    /\ calc.last = "Start Over"
    /\ run.op = "Start Over"
    /\ calc.authenticated
    /\ calc.username = "trial"
    /\ calc.login_time # NoTime
    /\ original_images = <<>>

----------------------------------------------------------------------------
(* Properties of the session as a whole *)

\* C24: at every index the edited image and the working image are the
\* same image.
C24_EditedIsWorking ==
    /\ Len(edited_images) = Len(working_images)
    /\ \A i \in DOMAIN working_images : edited_images[i] = working_images[i]

\* photos committed by apply-to-all, the edited and the working image of
\* which are the same adjusted image
C24_Witness ==
    /\ run.op = "ApplyToAll"
    /\ ~run.raised
    /\ \E i \in DOMAIN working_images :
          /\ working_images[i] # original_images[i]
          /\ edited_images[i] = working_images[i]

\* C29 (as claimed): when the files now uploaded are all images, the
\* originals, the working images and the edited images are, in order, the
\* images of these files.
C29_BuffersOfUploadedFiles ==
    (\A k \in DOMAIN uploaded_files : FileKind(uploaded_files[k]) = "image") =>
    /\ [i \in DOMAIN original_images |-> original_images[i].src] = uploaded_files
    /\ [i \in DOMAIN working_images |-> working_images[i].src] = uploaded_files
    /\ [i \in DOMAIN edited_images |-> edited_images[i].src] = uploaded_files

====
